---- MODULE Spec2Model ----
(***************************************************************************)
(* KYB report synthesis and normalization pipeline (YCX-KYB).              *)
(*                                                                         *)
(* A text is a sequence of glyphs.  A glyph is one character of the text   *)
(* ("{", ",", "`", " ", ...) or one run of letters/digits that holds none  *)
(* of the characters the code looks at ("lawsuit", "12345", "json").       *)
(* A Python value is a record of one shape [t, s, k, items]:               *)
(*   t = "str"   s = the glyphs of the string                              *)
(*   t = "num"   s = the glyphs of the number                              *)
(*   t = "null" / "true" / "false"                                         *)
(*   t = "list"  items = the elements                                      *)
(*   t = "dict"  k = the keys in insertion order, items = their values     *)
(***************************************************************************)
EXTENDS Integers, Sequences, FiniteSets, TLC

\* ------------------------------------------------------------------ values

Str(s) == [t |-> "str", s |-> s, k |-> <<>>, items |-> <<>>]
Num(s) == [t |-> "num", s |-> s, k |-> <<>>, items |-> <<>>]
Null == [t |-> "null", s |-> <<>>, k |-> <<>>, items |-> <<>>]
PyTrue == [t |-> "true", s |-> <<>>, k |-> <<>>, items |-> <<>>]
PyFalse == [t |-> "false", s |-> <<>>, k |-> <<>>, items |-> <<>>]
List(xs) == [t |-> "list", s |-> <<>>, k |-> <<>>, items |-> xs]
Dict(ks, vs) == [t |-> "dict", s |-> <<>>, k |-> ks, items |-> vs]

EmptyDict == Dict(<<>>, <<>>)
EmptyList == List(<<>>)

\* isinstance(v, str) / list / dict
IsStr(v) == v.t = "str"
IsList(v) == v.t = "list"
IsDict(v) == v.t = "dict"

\* the position of key in the dict d, 0 when d does not hold it
KeyIndex(d, key) ==
    IF \E i \in 1..Len(d.k) : d.k[i] = key
    THEN CHOOSE i \in 1..Len(d.k) : d.k[i] = key
    ELSE 0

\* key in d
HasKey(d, key) == KeyIndex(d, key) # 0

\* d.get(key, default); d.get(key) is DictGet(d, key, Null)
DictGet(d, key, default) ==
    IF HasKey(d, key) THEN d.items[KeyIndex(d, key)] ELSE default

\* d[key] = val: a held key keeps its place, a new key goes last
DictSet(d, key, val) ==
    IF HasKey(d, key)
    THEN Dict(d.k, [d.items EXCEPT ![KeyIndex(d, key)] = val])
    ELSE Dict(Append(d.k, key), Append(d.items, val))

\* Python truthiness: bool(v)
Truthy(v) ==
    CASE v.t = "str" -> v.s # <<>>
      [] v.t = "num" -> v.s # <<"0">>
      [] v.t = "null" -> FALSE
      [] v.t = "true" -> TRUE
      [] v.t = "false" -> FALSE
      [] v.t = "list" -> v.items # <<>>
      [] v.t = "dict" -> v.k # <<>>

\* ------------------------------------------------------------------ texts

WS == {" ", "\n"}

\* t[i], "" past the end
At(t, i) == IF i >= 1 /\ i <= Len(t) THEN t[i] ELSE ""

\* t[i:] in Python terms, with i counted from 1
From(t, i) == SubSeq(t, i, Len(t))

\* t.startswith(pat, i)
StartsAt(t, pat, i) ==
    /\ i >= 1
    /\ i + Len(pat) - 1 <= Len(t)
    /\ SubSeq(t, i, i + Len(pat) - 1) = pat

RECURSIVE Find(_, _, _)
\* t.find(pat, i): the first place >= i where pat starts, 0 when there is none
Find(t, pat, i) ==
    IF i + Len(pat) - 1 > Len(t) THEN 0
    ELSE IF StartsAt(t, pat, i) THEN i
    ELSE Find(t, pat, i + 1)

RECURSIVE SkipWs(_, _)
\* the first place >= i that holds no whitespace (Len(t) + 1 when all is whitespace)
SkipWs(t, i) ==
    IF i > Len(t) THEN Len(t) + 1
    ELSE IF t[i] \notin WS THEN i
    ELSE SkipWs(t, i + 1)

RECURSIVE RStrip(_)
\* str.rstrip(), str.lstrip() and str.strip()
RStrip(t) ==
    IF t = <<>> THEN <<>>
    ELSE IF t[Len(t)] \notin WS THEN t
    ELSE RStrip(SubSeq(t, 1, Len(t) - 1))

LStrip(t) == From(t, SkipWs(t, 1))

Strip(t) == RStrip(LStrip(t))

\* ------------------------------------------------------------------ json.loads

\* the runs of digits of the texts: each is one JSON number
NumGlyphs == {"0", "5", "12345"}

ParseFail == [ok |-> FALSE, val |-> Null, pos |-> 0]
ParseOk(v, p) == [ok |-> TRUE, val |-> v, pos |-> p]

\* a JSON string that opens at t[i] = '"': it runs to the next '"'; a raw control
\* character (a line break) inside it is refused (strict mode)
ParseString(t, i) ==
    LET close == Find(t, <<"\"">>, i + 1)
    IN  IF close = 0 \/ (\E h \in (i + 1)..(close - 1) : t[h] = "\n")
        THEN ParseFail
        ELSE ParseOk(Str(SubSeq(t, i + 1, close - 1)), close + 1)

RECURSIVE ParseValue(_, _), ParseMembers(_, _, _), ParseElems(_, _, _)

\* scan_once: the value that starts at t[i]; pos is the place after it
ParseValue(t, i) ==
    LET c == At(t, i)
    IN  CASE c = "\"" -> ParseString(t, i)
          [] c = "{" ->
                LET j == SkipWs(t, i + 1)
                IN  IF At(t, j) = "}" THEN ParseOk(EmptyDict, j + 1)
                    ELSE ParseMembers(t, j, EmptyDict)
          [] c = "[" ->
                LET j == SkipWs(t, i + 1)
                IN  IF At(t, j) = "]" THEN ParseOk(EmptyList, j + 1)
                    ELSE ParseElems(t, j, <<>>)
          [] c \in NumGlyphs -> ParseOk(Num(<<c>>), i + 1)
          [] c = "null" -> ParseOk(Null, i + 1)
          [] c = "true" -> ParseOk(PyTrue, i + 1)
          [] c = "false" -> ParseOk(PyFalse, i + 1)
          [] OTHER -> ParseFail

\* JSONObject: the members from t[j] on, which must open a key; d holds the
\* members read so far (a repeated key keeps its last value)
ParseMembers(t, j, d) ==
    IF At(t, j) # "\"" THEN ParseFail
    ELSE
    LET key == ParseString(t, j)
    IN  IF ~key.ok THEN ParseFail
        ELSE
        LET colon == SkipWs(t, key.pos)
        IN  IF At(t, colon) # ":" THEN ParseFail
            ELSE
            LET val == ParseValue(t, SkipWs(t, colon + 1))
            IN  IF ~val.ok THEN ParseFail
                ELSE
                LET nxt == SkipWs(t, val.pos)
                    d2 == DictSet(d, key.val.s, val.val)
                IN  CASE At(t, nxt) = "}" -> ParseOk(d2, nxt + 1)
                      [] At(t, nxt) = "," -> ParseMembers(t, SkipWs(t, nxt + 1), d2)
                      [] OTHER -> ParseFail

\* JSONArray: the elements from t[j] on; xs holds the elements read so far
ParseElems(t, j, xs) ==
    LET val == ParseValue(t, j)
    IN  IF ~val.ok THEN ParseFail
        ELSE
        LET nxt == SkipWs(t, val.pos)
            xs2 == Append(xs, val.val)
        IN  CASE At(t, nxt) = "]" -> ParseOk(List(xs2), nxt + 1)
              [] At(t, nxt) = "," -> ParseElems(t, SkipWs(t, nxt + 1), xs2)
              [] OTHER -> ParseFail

\* json.loads(t): ok = FALSE stands for json.JSONDecodeError
JsonLoads(t) ==
    LET r == ParseValue(t, SkipWs(t, 1))
    IN  IF r.ok /\ SkipWs(t, r.pos) = Len(t) + 1 THEN r ELSE ParseFail

\* ------------------------------------------------------------------ str methods

RECURSIVE Split(_, _)
\* s.split(sep) for a one-glyph separator: the segments between the separators
Split(s, sep) ==
    LET cut == Find(s, <<sep>>, 1)
    IN  IF cut = 0 THEN <<s>>
        ELSE <<SubSeq(s, 1, cut - 1)>> \o Split(From(s, cut + 1), sep)

\* ------------------------------------------------------------------ str(), repr()

RECURSIVE EscapeStr(_, _)
\* the glyphs of s inside a repr: the quote in use, a backslash and a line break
\* are escaped
EscapeStr(s, quote) ==
    IF s = <<>> THEN <<>>
    ELSE (CASE Head(s) = quote -> <<"\\", quote>>
            [] Head(s) = "\\" -> <<"\\", "\\">>
            [] Head(s) = "\n" -> <<"\\", "n">>
            [] OTHER -> <<Head(s)>>) \o EscapeStr(Tail(s), quote)

\* repr(s) of a str: single quotes, double ones when s holds ' and no "
ReprStr(s) ==
    LET has1 == \E i \in 1..Len(s) : s[i] = "'"
        has2 == \E i \in 1..Len(s) : s[i] = "\""
        quote == IF has1 /\ ~has2 THEN "\"" ELSE "'"
    IN  <<quote>> \o EscapeStr(s, quote) \o <<quote>>

RECURSIVE PyRepr(_), ReprItems(_, _), ReprMembers(_, _)
\* repr(v)
PyRepr(v) ==
    CASE v.t = "str" -> ReprStr(v.s)
      [] v.t = "num" -> v.s
      [] v.t = "null" -> <<"None">>
      [] v.t = "true" -> <<"True">>
      [] v.t = "false" -> <<"False">>
      [] v.t = "list" -> <<"[">> \o ReprItems(v.items, 1) \o <<"]">>
      [] v.t = "dict" -> <<"{">> \o ReprMembers(v, 1) \o <<"}">>

ReprItems(xs, i) ==
    IF i > Len(xs) THEN <<>>
    ELSE (IF i > 1 THEN <<",", " ">> ELSE <<>>) \o PyRepr(xs[i]) \o ReprItems(xs, i + 1)

ReprMembers(d, i) ==
    IF i > Len(d.k) THEN <<>>
    ELSE (IF i > 1 THEN <<",", " ">> ELSE <<>>)
         \o ReprStr(d.k[i]) \o <<":", " ">> \o PyRepr(d.items[i])
         \o ReprMembers(d, i + 1)

\* str(v)
PyStr(v) == IF IsStr(v) THEN v.s ELSE PyRepr(v)

\* ------------------------------------------------------------------ outcomes

\* what a call gives its caller: a returned value (Null is Python's None) or a
\* raised exception; via names the exit the call took
Returned(v, via) == [kind |-> "return", value |-> v, exc |-> "", via |-> via]
Raised(e) == [kind |-> "raise", value |-> Null, exc |-> e, via |-> "raise"]
NoOutcome == [kind |-> "pending", value |-> Null, exc |-> "", via |-> ""]

\* ------------------------------------------------------------------ names

Sentinel == <<"Not", " ", "publicly", " ", "available">>
Unknown == <<"Unknown">>

K_company_name == <<"company_name">>
K_registration_number == <<"registration_number">>
K_incorporation_date == <<"incorporation_date">>
K_beneficial_owners == <<"beneficial_owners">>
K_financial_summary == <<"financial_summary">>
K_risk_indicators == <<"risk_indicators">>
K_raw_data == <<"raw_data">>
K_details == <<"details">>
K_name == <<"name">>
K_ownership_percentage == <<"ownership_percentage">>

CanonicalKeys ==
    {K_company_name, K_registration_number, K_incorporation_date,
     K_beneficial_owners, K_financial_summary, K_risk_indicators}

\* ------------------------------------------------------------------ app_v2.py

\* the glyph of the backquote character (the lexer of TLA+ reserves the character)
BQ == "<backquote>"

FenceOpen == <<BQ, BQ, BQ, "json">>
Fence == <<BQ, BQ, BQ>>

NoMatch == [found |-> FALSE, group |-> <<>>]
Match(g) == [found |-> TRUE, group |-> g]

\* re.search of the fenced-json pattern with re.DOTALL: the leftmost opening fence,
\* the whitespace after it, then the shortest text that is followed by whitespace
\* and a closing fence
SearchFencedJson(t) ==
    LET open == Find(t, FenceOpen, 1)
        body == SkipWs(t, open + Len(FenceOpen))
        close == Find(t, Fence, body)
    IN  IF open = 0 \/ close = 0 THEN NoMatch
        ELSE Match(RStrip(SubSeq(t, body, close - 1)))

RECURSIVE LastBrace(_, _)
\* the last place <= j of t that holds "}", 0 when there is none
LastBrace(t, j) ==
    IF j < 1 THEN 0
    ELSE IF t[j] = "}" THEN j
    ELSE LastBrace(t, j - 1)

\* re.search of the pattern ({.*}) with re.DOTALL: from the first "{" to the last "}"
\* after it
SearchBraces(t) ==
    LET first == Find(t, <<"{">>, 1)
        last == LastBrace(t, Len(t))
    IN  IF first = 0 \/ last < first THEN NoMatch
        ELSE Match(SubSeq(t, first, last))

\* ExtractV2 with the two searches in the other order
ExtractV2_BracesFirst(t) ==
    IF SearchBraces(t).found THEN SearchBraces(t).group
    ELSE IF SearchFencedJson(t).found THEN SearchFencedJson(t).group
    ELSE t

\* lines 94-102: the text handed to json.loads
ExtractV2(t) ==
    IF SearchFencedJson(t).found THEN SearchFencedJson(t).group
    ELSE IF SearchBraces(t).found THEN SearchBraces(t).group
    ELSE t

\* CoerceOwnersV2 without the test for the sentinel
CoerceOwnersV2_WrapsSentinel(r) ==
    LET bo == DictGet(r, K_beneficial_owners, Null)
    IN  IF IsStr(bo)
        THEN DictSet(r, K_beneficial_owners,
                List(<<Dict(<<K_name, K_ownership_percentage>>,
                            <<Str(bo.s), Str(Unknown)>>)>>))
        ELSE r

\* lines 107-113
CoerceOwnersV2(r) ==
    LET bo == DictGet(r, K_beneficial_owners, Null)
    IN  IF IsStr(bo)
        THEN IF bo.s = Sentinel
             THEN DictSet(r, K_beneficial_owners, EmptyList)
             ELSE DictSet(r, K_beneficial_owners,
                    List(<<Dict(<<K_name, K_ownership_percentage>>,
                                <<Str(bo.s), Str(Unknown)>>)>>))
        ELSE r

\* CoerceRisksV2 without the strip of each segment
CoerceRisksV2_NoTrim(r) ==
    LET ri == DictGet(r, K_risk_indicators, Null)
    IN  IF IsStr(ri)
        THEN IF ri.s = Sentinel
             THEN DictSet(r, K_risk_indicators, EmptyList)
             ELSE DictSet(r, K_risk_indicators,
                    List([i \in 1..Len(Split(ri.s, ",")) |-> Str(Split(ri.s, ",")[i])]))
        ELSE r

\* lines 115-121
CoerceRisksV2(r) ==
    LET ri == DictGet(r, K_risk_indicators, Null)
    IN  IF IsStr(ri)
        THEN IF ri.s = Sentinel
             THEN DictSet(r, K_risk_indicators, EmptyList)
             ELSE DictSet(r, K_risk_indicators,
                    List([i \in 1..Len(Split(ri.s, ",")) |->
                            Str(Strip(Split(ri.s, ",")[i]))]))
        ELSE r

\* lines 107-121: the field coercions applied to the parsed object
CoerceV2(r) == CoerceRisksV2(CoerceOwnersV2(r))

\* lines 126-134: the record returned when json.loads raises JSONDecodeError
FallbackV2(name, output_text) ==
    Dict(<<K_company_name, K_raw_data, K_registration_number, K_incorporation_date,
           K_beneficial_owners, K_financial_summary, K_risk_indicators>>,
         <<Str(name), Str(output_text), Str(Sentinel), Str(Sentinel),
           EmptyList, Dict(<<K_details>>, <<Str(Sentinel)>>), EmptyList>>)

\* lines 92-134: from the completion to the returned record.  content is
\* response.choices[0].message.content: a Str, or Null when the completion is absent
NormalizeV2(name, content) ==
    IF ~IsStr(content) THEN Raised("TypeError")
    ELSE
    LET output_text == ExtractV2(content.s)
        parsed == JsonLoads(output_text)
    IN  IF ~parsed.ok THEN Returned(FallbackV2(name, output_text), "fallback")
        ELSE IF ~IsDict(parsed.val) THEN Raised("AttributeError")
        ELSE Returned(CoerceV2(parsed.val), "parsed")

\* lines 29-134: generate_kyb_report(company_name, company_website, api_key);
\* llm is the outcome of client.chat.completions.create
GenerateKybReportV2(name, llm) ==
    IF llm.raises THEN Returned(Null, "llm_error")
    ELSE NormalizeV2(name, llm.content)

\* ------------------------------------------------------------------ app_v3.py

K_revenue == <<"revenue">>
K_net_income == <<"net_income">>
K_total_assets == <<"total_assets">>

RECURSIVE Replace(_, _, _)
\* t.replace(pat, rep): every occurrence of pat, left to right, none overlapping
Replace(t, pat, rep) ==
    LET hit == Find(t, pat, 1)
    IN  IF hit = 0 THEN t
        ELSE SubSeq(t, 1, hit - 1) \o rep \o Replace(From(t, hit + Len(pat)), pat, rep)

RECURSIVE DropCommaBefore(_, _)
\* re.sub(r',\s*X', 'X', t) for a closing glyph X: a comma that only whitespace
\* separates from X goes, with that whitespace
DropCommaBefore(t, closer) ==
    IF t = <<>> THEN <<>>
    ELSE IF Head(t) = "," /\ At(t, SkipWs(t, 2)) = closer
         THEN <<closer>> \o DropCommaBefore(From(t, SkipWs(t, 2) + 1), closer)
         ELSE <<Head(t)>> \o DropCommaBefore(Tail(t), closer)

\* lines 416-422: the repair pass
RepairV3(t) ==
    LET stripped == Strip(t)
        unfenced == IF StartsAt(stripped, FenceOpen, 1)
                    THEN Replace(Replace(stripped, FenceOpen, <<>>), Fence, <<>>)
                    ELSE stripped
        quoted == Replace(unfenced, <<"'">>, <<"\"">>)
    IN  DropCommaBefore(DropCommaBefore(quoted, "}"), "]")

\* lines 433-441: has_data, for a parsed dict whose financial_summary, when held,
\* is a dict
HasDataV3(r) ==
    \/ DictGet(r, K_registration_number, Str(Sentinel)) # Str(Sentinel)
    \/ DictGet(r, K_incorporation_date, Str(Sentinel)) # Str(Sentinel)
    \/ Truthy(DictGet(r, K_beneficial_owners, EmptyList))
    \/ Truthy(DictGet(r, K_risk_indicators, EmptyList))
    \/ DictGet(DictGet(r, K_financial_summary, EmptyDict), K_revenue, Str(Sentinel))
          # Str(Sentinel)

\* lines 454, 464-473: the revenue of additional_info: the sentinel when the
\* pattern of line 464 finds no amount in the scraped text
ScrapedRevenue(scraped) ==
    IF scraped.amount = <<>> THEN Sentinel
    ELSE <<"$">> \o scraped.amount \o
         (CASE scraped.unit = "million" -> <<"M">>
            [] scraped.unit = "billion" -> <<"B">>
            [] OTHER -> <<>>)

\* lines 449-482: additional_info.  scraped holds what the patterns of lines 459,
\* 464, 476 and 481 find in the scraped text: the year, the revenue amount and
\* unit, the owner's name (each <<>> when the pattern finds none) and whether a
\* risk keyword occurs
AdditionalInfo(name, scraped) ==
    Dict(<<K_company_name, K_registration_number, K_incorporation_date,
           K_beneficial_owners, K_financial_summary, K_risk_indicators>>,
         <<Str(name),
           Str(Sentinel),
           Str(IF scraped.year = <<>> THEN Sentinel ELSE scraped.year),
           IF scraped.owner = <<>> THEN EmptyList ELSE List(<<Str(scraped.owner)>>),
           Dict(<<K_revenue, K_net_income, K_total_assets>>,
                <<Str(ScrapedRevenue(scraped)), Str(Sentinel), Str(Sentinel)>>),
           IF scraped.risk
           THEN List(<<Str(<<"Potential", " ", "legal", " ", "or", " ", "regulatory",
                             " ", "issues", " ", "identified">>)>>)
           ELSE EmptyList>>)

RECURSIVE MergeFrom(_, _, _)
\* lines 485-487: the keys of info from the i-th on, merged into r
MergeFrom(r, info, i) ==
    IF i > Len(info.k) THEN r
    ELSE LET key == info.k[i]
             val == info.items[i]
         IN  IF /\ HasKey(r, key)
                /\ Truthy(val)
                /\ val # Str(Sentinel)
                /\ val # EmptyList
             THEN MergeFrom(DictSet(r, key, val), info, i + 1)
             ELSE MergeFrom(r, info, i + 1)

\* lines 484-487
MergeScraped(r, info) == MergeFrom(r, info, 1)

\* RestructureV3 with the company name read from the report like the other fields
RestructureV3_KeepsModelName(name, r) ==
    Dict(<<K_company_name, K_registration_number, K_incorporation_date,
           K_beneficial_owners, K_financial_summary, K_risk_indicators>>,
         <<DictGet(r, K_company_name, Str(name)),
           DictGet(r, K_registration_number, Str(Sentinel)),
           DictGet(r, K_incorporation_date, Str(Sentinel)),
           DictGet(r, K_beneficial_owners, EmptyList),
           DictGet(r, K_financial_summary, EmptyDict),
           DictGet(r, K_risk_indicators, EmptyList)>>)

\* lines 490-497: the report rebuilt on the six keys
RestructureV3(name, r) ==
    Dict(<<K_company_name, K_registration_number, K_incorporation_date,
           K_beneficial_owners, K_financial_summary, K_risk_indicators>>,
         <<Str(name),
           DictGet(r, K_registration_number, Str(Sentinel)),
           DictGet(r, K_incorporation_date, Str(Sentinel)),
           DictGet(r, K_beneficial_owners, EmptyList),
           DictGet(r, K_financial_summary, EmptyDict),
           DictGet(r, K_risk_indicators, EmptyList)>>)

\* CoerceOwnersV3 without the isinstance test
CoerceOwnersV3_AlwaysWraps(r) ==
    LET bo == DictGet(r, K_beneficial_owners, Null)
    IN  DictSet(r, K_beneficial_owners,
            IF bo # Str(Sentinel) THEN List(<<bo>>) ELSE EmptyList)

\* lines 499-500
CoerceOwnersV3(r) ==
    LET bo == DictGet(r, K_beneficial_owners, Null)
    IN  IF IsList(bo) THEN r
        ELSE DictSet(r, K_beneficial_owners,
                IF bo # Str(Sentinel) THEN List(<<bo>>) ELSE EmptyList)

\* lines 502-503
CoerceRisksV3(r) ==
    LET ri == DictGet(r, K_risk_indicators, Null)
    IN  IF IsList(ri) THEN r
        ELSE DictSet(r, K_risk_indicators,
                IF ri # Str(Sentinel) THEN List(<<ri>>) ELSE EmptyList)

\* lines 505-506
CoerceFinancialV3(r) ==
    LET fs == DictGet(r, K_financial_summary, Null)
    IN  IF IsDict(fs) THEN r
        ELSE DictSet(r, K_financial_summary, Dict(<<K_details>>, <<Str(PyStr(fs))>>))

\* lines 489-508: the required structure and the field coercions
CoerceV3(name, r) ==
    CoerceFinancialV3(CoerceRisksV3(CoerceOwnersV3(RestructureV3(name, r))))

\* lines 432-508 for a parsed value r; scraped.usable says that the text
\* scrape_web_for_company returned is non-empty and holds no
\* "No additional data found"
FinishV3(name, r, scraped) ==
    IF ~IsDict(r) THEN Returned(Null, "error")
    ELSE IF ~IsDict(DictGet(r, K_financial_summary, EmptyDict))
    THEN Returned(Null, "error")
    ELSE IF HasDataV3(r) THEN Returned(CoerceV3(name, r), "direct")
    ELSE IF ~scraped.usable THEN Returned(CoerceV3(name, r), "scraped_nothing")
    ELSE Returned(CoerceV3(name, MergeScraped(r, AdditionalInfo(name, scraped))),
                  "merged")

\* lines 382-512: generate_kyb_report(company_name, company_website, api_key, model).
\* Every exception raised inside is caught at line 510 and None is returned
GenerateKybReportV3(name, llm, scraped) ==
    IF llm.raises THEN Returned(Null, "llm_error")
    ELSE IF ~IsStr(llm.content) THEN Returned(Null, "error")
    ELSE LET parsed == JsonLoads(RepairV3(llm.content.s))
         IN  IF ~parsed.ok THEN Returned(Null, "parse_error")
             ELSE FinishV3(name, parsed.val, scraped)

\* ------------------------------------------- scrape_additional_data, process_company

K_about_info == <<"about_info">>
K_leadership_info == <<"leadership_info">>
K_contact_info == <<"contact_info">>
K_social_media == <<"social_media">>
K_potential_risks == <<"potential_risks">>
K_title == <<"title">>
K_web_data == <<"web_data">>
K_news_data == <<"news_data">>
K_error == <<"error">>

FailedToRetrieve == <<"Failed", " ", "to", " ", "retrieve", " ", "website", " ", "data">>
FailedToRetrieveV3 == <<"Failed", " ", "to", " ", "retrieve", " ", "data">>
NotFoundOnWebsite == <<"Not", " ", "found", " ", "on", " ", "website">>
NoneDetected == <<"None", " ", "detected", " ", "on", " ", "website">>

\* A fetch is what requests.get and the selectors give for the website of the
\* request:
\*   website     the URL handed to the scraper, <<>> when it is empty
\*   ok          FALSE when requests.get or raise_for_status raises
\*   err         str(e) of that exception
\*   about       the about text the selectors find, its first 500 characters when
\*               about_long says that it is longer
\*   leaders     the [name, title] pairs the team selectors give
\*   hits        the [keyword, context] pairs of the risk keywords the page holds,
\*               in the order of risk_keywords
\* The pages hold no e-mail address and no social media link.

\* leadership_info.append({"name": name, "title": title}), for every pair
LeadershipInfo(fetch) ==
    List([i \in 1..Len(fetch.leaders) |->
            Dict(<<K_name, K_title>>,
                 <<Str(fetch.leaders[i].name), Str(fetch.leaders[i].title)>>)])

\* app_v2.py line 235: f"Website mentions '{keyword}': ...{context}..."
RiskMessageV2(hit) ==
    <<"Website", " ", "mentions", " ", "'", hit.keyword, "'", ":", " ", ".", ".", ".">>
        \o hit.context \o <<".", ".", ".">>

\* script_v3.py line 211: f"Potential {keyword} mention: '{context}'"
RiskMessageScriptV3(hit) ==
    <<"Potential", " ", hit.keyword, " ", "mention", ":", " ", "'">>
        \o hit.context \o <<"'">>

\* ScrapeAdditionalDataV2 with no record returned for a failed fetch
ScrapeAdditionalDataV2_NoRecord(fetch) ==
    IF ~fetch.ok THEN Null
    ELSE Dict(<<K_about_info>>, <<Str(fetch.about)>>)

\* app_v2.py lines 136-243: scrape_additional_data(company_name, company_website)
ScrapeAdditionalDataV2(fetch) ==
    IF ~fetch.ok
    THEN Dict(<<K_about_info>>, <<Str(FailedToRetrieve \o <<":", " ">> \o fetch.err)>>)
    ELSE Dict(<<K_about_info, K_leadership_info, K_contact_info, K_social_media,
                K_potential_risks>>,
              <<Str(IF fetch.about_long THEN fetch.about \o <<".", ".", ".">>
                                        ELSE fetch.about),
                LeadershipInfo(fetch),
                EmptyDict,
                EmptyDict,
                IF fetch.hits # <<>>
                THEN List([i \in 1..Len(fetch.hits) |-> Str(RiskMessageV2(fetch.hits[i]))])
                ELSE Str(NoneDetected)>>)

\* script_v3.py lines 108-219: scrape_additional_data(company_name, company_website)
ScrapeAdditionalDataScriptV3(fetch) ==
    IF ~fetch.ok
    THEN Dict(<<K_about_info>>, <<Str(FailedToRetrieve)>>)
    ELSE Dict(<<K_about_info, K_leadership_info, K_contact_info, K_social_media,
                K_potential_risks>>,
              <<Str(fetch.about),
                IF fetch.leaders # <<>> THEN LeadershipInfo(fetch)
                                        ELSE Str(NotFoundOnWebsite),
                Str(NotFoundOnWebsite),
                Str(NotFoundOnWebsite),
                IF fetch.hits # <<>>
                THEN List([i \in 1..Len(fetch.hits) |->
                            Str(RiskMessageScriptV3(fetch.hits[i]))])
                ELSE Str(NoneDetected)>>)

\* app_v3.py lines 514-543: scrape_additional_data(company_website)
ScrapeAdditionalDataV3(fetch) ==
    IF fetch.website = <<>> THEN Dict(<<K_about_info>>, <<Str(<<"N", "/", "A">>)>>)
    ELSE IF ~fetch.ok THEN Dict(<<K_about_info>>, <<Str(FailedToRetrieveV3)>>)
    ELSE Dict(<<K_about_info>>, <<Str(fetch.about)>>)

\* app_v2.py lines 245-250: search_news_for_risks
SearchNewsForRisks ==
    Dict(<<(<<"news_search_performed">>), (<<"note">>)>>,
         <<PyTrue,
           Str(<<"This", " ", "is", " ", "a", " ", "placeholder", " ", "for", " ",
                 "news", " ", "risk", " ", "analysis", ".", " ", "In", " ",
                 "production", ",", " ", "connect", " ", "to", " ", "a", " ", "news",
                 " ", "API", ".">>)>>)

\* len(v) is defined: v is a string, a list or a dict
Sized(v) == v.t \in {"str", "list", "dict"}

\* OwnersFromLeadership without the title
OwnersFromLeadership_NoTitle(li) ==
    List([i \in 1..Len(li.items) |->
            Dict(<<K_name, K_ownership_percentage>>,
                 <<DictGet(li.items[i], K_name, Null), Str(Unknown)>>)])

\* lines 272-275: one owner for each leader of the list li
OwnersFromLeadership(li) ==
    List([i \in 1..Len(li.items) |->
            Dict(<<K_name, K_ownership_percentage, K_title>>,
                 <<DictGet(li.items[i], K_name, Null),
                   Str(Unknown),
                   DictGet(li.items[i], K_title, Null)>>)])

\* every element of the list li is a dict that holds name and title
IsLeaderList(li) ==
    /\ IsList(li)
    /\ \A i \in 1..Len(li.items) :
            /\ IsDict(li.items[i])
            /\ HasKey(li.items[i], K_name)
            /\ HasKey(li.items[i], K_title)

\* EnhanceOwnersV2 without the test of line 270
EnhanceOwnersV2_ScrapedFirst(profile, enrichment) ==
    LET li == DictGet(enrichment, K_leadership_info, Null)
    IN  IF Truthy(li) /\ IsLeaderList(li)
        THEN Returned(DictSet(profile, K_beneficial_owners, OwnersFromLeadership(li)),
                      "profile")
        ELSE Returned(profile, "profile")

\* lines 270-275.  len() of a number or a boolean raises TypeError; so does
\* leader["name"] when leader is no dict
EnhanceOwnersV2(profile, enrichment) ==
    LET bo == DictGet(profile, K_beneficial_owners, Null)
        li == DictGet(enrichment, K_leadership_info, Null)
    IN  IF Truthy(bo) /\ ~Sized(bo) THEN Raised("TypeError")
        ELSE IF Truthy(bo) THEN Returned(profile, "profile")
        ELSE IF ~Truthy(li) THEN Returned(profile, "profile")
        ELSE IF ~Sized(li) THEN Raised("TypeError")
        ELSE IF ~IsLeaderList(li) THEN Raised("TypeError")
        ELSE Returned(DictSet(profile, K_beneficial_owners, OwnersFromLeadership(li)),
                      "profile")

\* EnhanceRisksV2 with the scraped risks put before the report's
EnhanceRisksV2_ScrapedFirst(profile, enrichment) ==
    LET pr == DictGet(enrichment, K_potential_risks, Null)
        ri == DictGet(profile, K_risk_indicators, Null)
    IN  IF ~(Truthy(pr) /\ pr # Str(NoneDetected)) THEN Returned(profile, "profile")
        ELSE IF ~Truthy(ri) THEN Returned(DictSet(profile, K_risk_indicators, pr), "profile")
        ELSE Returned(DictSet(profile, K_risk_indicators, List(pr.items \o ri.items)),
                      "profile")

\* lines 278-282.  list.extend of a string adds its characters, of a dict its keys;
\* the scraper gives a list of strings or the sentinel
EnhanceRisksV2(profile, enrichment) ==
    LET pr == DictGet(enrichment, K_potential_risks, Null)
        ri == DictGet(profile, K_risk_indicators, Null)
    IN  IF ~(Truthy(pr) /\ pr # Str(NoneDetected)) THEN Returned(profile, "profile")
        ELSE IF Truthy(ri) /\ ~Sized(ri) THEN Raised("TypeError")
        ELSE IF ~Truthy(ri) THEN Returned(DictSet(profile, K_risk_indicators, pr), "profile")
        ELSE IF ~IsList(ri) THEN Raised("AttributeError")
        ELSE IF ~IsList(pr) THEN Raised("TypeError")
        ELSE Returned(DictSet(profile, K_risk_indicators, List(ri.items \o pr.items)),
                      "profile")

\* lines 266-284: the merge of the report with the scraped data
MergeProfileV2(kyb_report, enrichment) ==
    LET full_profile0 == DictSet(DictSet(kyb_report, K_web_data, enrichment),
                                 K_news_data, SearchNewsForRisks)
        owners == EnhanceOwnersV2(full_profile0, enrichment)
    IN  IF owners.kind = "raise" THEN owners
        ELSE EnhanceRisksV2(owners.value, enrichment)

\* lines 252-284: process_company(company_name, company_website, api_key); l is
\* the outcome of the LLM call, fetch that of the website
ProcessCompanyV2(name, l, fetch) ==
    LET report == GenerateKybReportV2(name, l)
    IN  IF report.kind = "raise" THEN report
        ELSE IF ~Truthy(report.value)
             THEN Returned(Dict(<<K_company_name, K_error>>,
                                <<Str(name),
                                  Str(<<"KYB", " ", "report", " ", "generation", " ",
                                        "failed">>)>>),
                           "error")
             ELSE MergeProfileV2(report.value, ScrapeAdditionalDataV2(fetch))

\* ------------------------------------------------------------------ CSV stores

\* a data frame is a sequence of rows, a row gives each column a Str or NaN;
\* a CSV file is absent, or holds a sequence of rows of cell texts
NaN == Num(<<"nan">>)

AbsentFile == [exists |-> FALSE, rows |-> <<>>]

\* pandas.read_csv reads these cell texts as a missing value
NaMarkers ==
    {<<>>, <<"N", "/", "A">>, <<"NA">>, <<"n", "/", "a">>, <<"NaN">>, <<"nan">>,
     <<"NULL">>, <<"null">>, <<"None">>}

\* DataFrame.to_csv(path, index=False): a missing value is written as the empty cell
WriteCell(v) == IF v = NaN THEN <<>> ELSE v.s

ToCsv(df) ==
    [exists |-> TRUE,
     rows |-> [i \in 1..Len(df) |-> [c \in DOMAIN df[i] |-> WriteCell(df[i][c])]]]

\* pandas.read_csv(path) of a file that exists
ReadCell(t) == IF t \in NaMarkers THEN NaN ELSE Str(t)

ReadCsv(file) ==
    [i \in 1..Len(file.rows) |->
        [c \in DOMAIN file.rows[i] |-> ReadCell(file.rows[i][c])]]

\* pd.concat([df, pd.DataFrame([row])], ignore_index=True): a column the row
\* does not give is missing in the new row
Concat(df, columns, row) ==
    Append(df, [c \in columns |-> IF c \in DOMAIN row THEN row[c] ELSE NaN])

\* str.lower(), on the letter runs the company names are written with
LowerGlyph(g) ==
    CASE g \in {"Acme", "ACME"} -> "acme"
      [] g = "Beta" -> "beta"
      [] g = "Corp" -> "corp"
      [] OTHER -> g

Lower(t) == [i \in 1..Len(t) |-> LowerGlyph(t[i])]

\* ------------------------------------------ check_and_get_company_data, update_company_data

CompanyNameColumn == "Company Name"
WebsiteColumn == "Website"
CompanyColumns == {CompanyNameColumn, WebsiteColumn}

\* df['Company Name'].str.lower() == company_name.lower(): the rows that match, in
\* order; a missing name matches nothing
RECURSIVE MatchingRows(_, _, _)
MatchingRows(df, name, i) ==
    IF i > Len(df) THEN <<>>
    ELSE (IF df[i][CompanyNameColumn] # NaN
             /\ Lower(df[i][CompanyNameColumn].s) = Lower(name)
          THEN <<i>> ELSE <<>>) \o MatchingRows(df, name, i + 1)

\* the .str accessor raises AttributeError on a column that holds no string
HasStrAccessor(df) == df = <<>> \/ \E i \in 1..Len(df) : df[i][CompanyNameColumn] # NaN

\* lines 676-688: check_and_get_company_data(company_name): the matching row or
\* None, and the data frame; (None, None) when reading or matching raises
CheckAndGetCompanyData(file, name) ==
    IF ~file.exists \/ ~HasStrAccessor(ReadCsv(file))
    THEN [company_data |-> Null, df |-> Null]
    ELSE LET df == ReadCsv(file)
             hits == MatchingRows(df, name, 1)
         IN  [company_data |-> IF hits = <<>> THEN Null ELSE df[hits[1]], df |-> df]

\* update_company_data that adds a row whether the company is held or not
UpdateCompanyData_AlwaysAppends(file, name, new_data, existing_df) ==
    IF existing_df = Null \/ ~HasStrAccessor(existing_df)
    THEN [returned |-> FALSE, df |-> existing_df, file |-> file]
    ELSE LET df == Concat(existing_df, CompanyColumns, new_data)
         IN  [returned |-> TRUE, df |-> df, file |-> ToCsv(df)]

\* lines 690-710: update_company_data(company_name, new_data, existing_df): what
\* it returns, the data frame it built and the file it leaves
UpdateCompanyData(file, name, new_data, existing_df) ==
    IF existing_df = Null \/ ~HasStrAccessor(existing_df)
    THEN [returned |-> FALSE, df |-> existing_df, file |-> file]
    ELSE LET company_idx == MatchingRows(existing_df, name, 1)
             df == IF Len(company_idx) > 0
                   THEN [existing_df EXCEPT ![company_idx[1]] =
                            [c \in CompanyColumns |->
                                IF c \in DOMAIN new_data THEN new_data[c] ELSE @[c]]]
                   ELSE Concat(existing_df, CompanyColumns, new_data)
         IN  [returned |-> TRUE, df |-> df, file |-> ToCsv(df)]

\* ------------------------------------------------------------------ save_to_core_dataset

CoreColumns == {"company_name", "additional_info", "timestamp"}

\* datetime.now().strftime("%Y-%m-%d %H:%M:%S"), for the now-th second of a day
Seconds == <<"00", "01", "02", "03", "04", "05", "06", "07", "08", "09">>

Timestamp(now) ==
    <<"2025", "-", "01", "-", "01", " ", "12", ":", "00", ":", Seconds[now + 1]>>

\* lines 174-190: save_to_core_dataset(company_name, processed_data): the file
\* it leaves
SaveToCoreDataset(file, name, processed_data, now) ==
    LET new_data == [c \in CoreColumns |->
                        CASE c = "company_name" -> Str(name)
                          [] c = "additional_info" -> Str(processed_data)
                          [] c = "timestamp" -> Str(Timestamp(now))]
    IN  IF file.exists
        THEN ToCsv(Append(ReadCsv(file), new_data))
        ELSE ToCsv(<<new_data>>)

\* ------------------------------------------------------------------ save_report

\* datetime.now().strftime("%Y%m%d_%H%M%S"), for the now-th second of a day
FileTimestamp(now) == <<"20250101", "_", "1200" \o Seconds[now + 1]>>

\* lines 547-549: the name of the report file; the name is compared as a whole
ReportFileName(name, now) ==
    Replace(name, <<" ">>, <<"_">>) \o <<"_">> \o FileTimestamp(now) \o <<".", "json">>

\* lines 545-551: save_report(company_name, report_data): the files of the
\* reports directory it leaves; open(filepath, 'w') truncates a file that exists
SaveReport(files, name, report_data, now) ==
    LET filename == ReportFileName(name, now)
    IN  {f \in files : f.filename # filename}
        \cup {[filename |-> filename, content |-> report_data]}

\* ------------------------------------------------------------------ update_user_output

OutputColumns == {"api_key", "input_type", "input_text", "timestamp"}

\* lines 555-561: new_entry
NewEntry(api_key, input_type, input_text, timestamp) ==
    [c \in OutputColumns |->
        CASE c = "api_key" -> Str(api_key)
          [] c = "input_type" -> Str(input_type)
          [] c = "input_text" -> Str(input_text)
          [] c = "timestamp" -> Str(timestamp)]

\* the data frame built from new_entry alone, whatever the file holds
AddEntry_NoRead(file, new_entry) == <<new_entry>>

\* lines 564-568: the data frame update_user_output builds from the file as it
\* is when it is read
AddEntry(file, new_entry) ==
    IF file.exists THEN Append(ReadCsv(file), new_entry) ELSE <<new_entry>>

\* ------------------------------------------------------------------ inputs

\* the most fields a generated response object holds
MaxFields == 2

\* a JSON string literal, a member and an object, as texts
Q(s) == <<"\"">> \o s \o <<"\"">>
Member(key, valtext) == Q(key) \o <<":", " ">> \o valtext

RECURSIVE JoinMembers(_)
JoinMembers(ms) ==
    IF ms = <<>> THEN <<>>
    ELSE IF Len(ms) = 1 THEN ms[1]
    ELSE ms[1] \o <<",", " ">> \o JoinMembers(Tail(ms))

ObjText(ms) == <<"{">> \o JoinMembers(ms) \o <<"}">>

AcmeCorp == <<"Acme", " ", "Corp">>
Prose == <<"Here", " ", "is", " ", "the", " ", "report", ":">>

FieldOrder ==
    <<K_company_name, K_registration_number, K_incorporation_date,
      K_beneficial_owners, K_financial_summary, K_risk_indicators>>

OwnerText ==
    ObjText(<<Member(K_name, Q(<<"Jane", " ", "Doe">>)),
              Member(K_ownership_percentage, Q(<<"60", "%">>))>>)

\* the value texts a generated object may give each field
FieldValues(key) ==
    CASE key = K_company_name -> {Q(<<"AcmeCo">>)}
      [] key = K_registration_number -> {Q(<<"12345">>), Q(Sentinel)}
      [] key = K_incorporation_date -> {Q(<<"2020">>)}
      [] key = K_beneficial_owners ->
            {Q(Sentinel), Q(<<"Jane", " ", "Doe">>), <<"[", "]">>,
             <<"[">> \o OwnerText \o <<"]">>, <<"5">>, <<"null">>, OwnerText}
      [] key = K_financial_summary ->
            {Q(<<"Revenue", " ", "$", "5", "M">>),
             ObjText(<<Member(K_revenue, Q(<<"$", "5", "M">>))>>),
             ObjText(<<Member(K_revenue, Q(Sentinel))>>),
             ObjText(<<Member(<<"funding">>, Q(<<"$", "5", "M">>))>>),
             <<"[", "5", "]">>, <<"5">>}
      [] key = K_risk_indicators ->
            {Q(Sentinel), Q(<<"lawsuit", ",", " ", "fine">>),
             Q(<<" ", "fraud", " ", ",", ",", "fine", " ">>),
             <<"[", "]">>, <<"[">> \o Q(<<"Lawsuit", " ", "2022">>) \o <<"]">>,
             <<"null">>}

RECURSIVE MemberLists(_, _)
\* the member lists that give at most n of the i-th and later fields a value,
\* in the order of FieldOrder
MemberLists(i, n) ==
    IF i > Len(FieldOrder) THEN {<<>>}
    ELSE MemberLists(i + 1, n) \cup
         (IF n = 0 THEN {}
          ELSE {<<Member(FieldOrder[i], v)>> \o rest :
                    v \in FieldValues(FieldOrder[i]), rest \in MemberLists(i + 1, n - 1)})

ObjectTexts == {ObjText(ms) : ms \in MemberLists(1, MaxFields)}

\* the object of the end-to-end scenario
ScenarioObject ==
    ObjText(<<Member(K_company_name, Q(<<"AcmeCo">>)),
              Member(K_registration_number, Q(<<"12345">>)),
              Member(K_beneficial_owners, Q(Sentinel)),
              Member(K_risk_indicators, Q(<<"lawsuit", ",", " ", "fine">>)),
              Member(K_financial_summary, Q(<<"Revenue", " ", "$", "5", "M">>))>>)

\* another object, to stand beside a fenced block
OtherObject == ObjText(<<Member(K_registration_number, Q(<<"999">>))>>)

\* texts that are no JSON object
OddBodies ==
    {<<"{", "not", " ", "json", "}">>, <<"[", "5", "]">>, <<"5">>, <<"null">>,
     Q(<<"text">>), <<"{", "'", "a", "'", ":", " ", "'", "b", "'", ",", "}">>}

Bodies == ObjectTexts \cup {ScenarioObject} \cup OddBodies

Fenced(b) == FenceOpen \o <<"\n">> \o b \o <<"\n">> \o Fence

\* the response texts: a body bare, fenced, inside prose, or fenced beside another
\* bare object; and texts with no body at all
Layouts(b) ==
    {b,
     Fenced(b),
     Prose \o <<"\n">> \o Fenced(b),
     Prose \o <<" ">> \o b \o <<" ">> \o <<"thanks">>,
     Fenced(b) \o <<"\n">> \o OtherObject,
     OtherObject \o <<"\n">> \o Fenced(b)}

\* objects that are valid JSON, and each with the defects the repair pass of
\* app_v3.py is written for: single quotes for double quotes, a comma before the
\* closing brace, a fence around the object (an object that holds an apostrophe
\* in a string keeps its double quotes)
ABObject == ObjText(<<Member(<<"a">>, Q(<<"b">>))>>)
ApostropheObject == ObjText(<<Member(K_registration_number, Q(<<"O", "'", "Brien">>))>>)
RiskListObject ==
    ObjText(<<Member(K_risk_indicators, <<"[">> \o Q(<<"Lawsuit", " ", "2022">>) \o <<"]">>)>>)

CleanObjects == {ABObject, ApostropheObject, RiskListObject}

SingleQuoted(c) == Replace(c, <<"\"">>, <<"'">>)
TrailingComma(c) == SubSeq(c, 1, Len(c) - 1) \o <<",", "}">>

Defected(c) ==
    LET quoted == IF \E i \in 1..Len(c) : c[i] = "'" THEN {c} ELSE {c, SingleQuoted(c)}
        commas == quoted \cup {TrailingComma(q) : q \in quoted}
    IN  commas \cup {Fenced(d) : d \in commas}

RepairTexts == UNION {Defected(c) : c \in CleanObjects}

ResponseTexts ==
    UNION {Layouts(b) : b \in Bodies} \cup {<<>>, Prose, <<" ", "\n">>} \cup RepairTexts

\* what client.chat.completions.create gives: an exception, or a completion whose
\* content is a text or is absent
LlmOutcomes ==
    {[raises |-> TRUE, content |-> Null], [raises |-> FALSE, content |-> Null]}
    \cup {[raises |-> FALSE, content |-> Str(t)] : t \in ResponseTexts}

CompanyNames == {AcmeCorp}

\* what the patterns find in the text scrape_web_for_company returns
NoScrape ==
    [usable |-> FALSE, year |-> <<>>, amount |-> <<>>, unit |-> "unknown",
     owner |-> <<>>, risk |-> FALSE]

ScrapedTexts ==
    {NoScrape,
     [NoScrape EXCEPT !.usable = TRUE],
     [usable |-> TRUE, year |-> <<"2023">>, amount |-> <<"100">>, unit |-> "million",
      owner |-> <<"John", " ", "Doe">>, risk |-> TRUE],
     [usable |-> TRUE, year |-> <<>>, amount |-> <<"7">>, unit |-> "unknown",
      owner |-> <<>>, risk |-> FALSE]}

\* the most leaders the team selectors give, and the most risk keywords a page holds
MaxLeaders == 2
MaxRisks == 2

Url == <<"https", ":", "/", "/", "acme", ".", "com">>

LeaderPairs ==
    {[name |-> <<"Ann", " ", "Lee">>, title |-> <<"CEO">>],
     [name |-> <<"Bob", " ", "Ray">>, title |-> <<>>]}

LeaderLists == UNION {[1..n -> LeaderPairs] : n \in 0..MaxLeaders}

\* the first of risk_keywords
RiskKeywords == <<"litigation", "lawsuit", "fine">>

HitOf(keyword) ==
    [keyword |-> keyword, context |-> <<"a", " ", keyword, " ", "in", " ", "2022">>]

RECURSIVE HitLists(_, _)
\* the hits of at most n of the i-th and later keywords, in the order of the keywords
HitLists(i, n) ==
    IF i > Len(RiskKeywords) THEN {<<>>}
    ELSE HitLists(i + 1, n) \cup
         (IF n = 0 THEN {}
          ELSE {<<HitOf(RiskKeywords[i])>> \o rest : rest \in HitLists(i + 1, n - 1)})

AboutAcme == <<"Acme", " ", "builds", " ", "robots">>

NoFetch ==
    [website |-> <<>>, ok |-> FALSE, err |-> <<"Invalid", " ", "URL">>,
     about |-> <<>>, about_long |-> FALSE, leaders |-> <<>>, hits |-> <<>>]

Fetches ==
    {NoFetch,
     [NoFetch EXCEPT !.website = Url, !.err = <<"timed", " ", "out">>],
     [NoFetch EXCEPT !.website = Url, !.ok = TRUE, !.err = <<>>, !.about = AboutAcme,
                     !.about_long = TRUE]}
    \cup {[website |-> Url, ok |-> TRUE, err |-> <<>>, about |-> AboutAcme,
            about_long |-> FALSE, leaders |-> ls, hits |-> hs] :
                ls \in LeaderLists, hs \in HitLists(1, MaxRisks)}

\* the response of the end-to-end scenario: prose, then the object in a fenced block
ScenarioResponse == Prose \o <<"\n">> \o Fenced(ScenarioObject)

\* the responses process_company is run on: an object that gives beneficial_owners
\* and risk_indicators each of their values or leaves them out, prose, and the
\* scenario response
OwnersAndRisks ==
    {o \o r :
        o \in {<<>>} \cup {<<Member(K_beneficial_owners, v)>> :
                                v \in FieldValues(K_beneficial_owners)},
        r \in {<<>>} \cup {<<Member(K_risk_indicators, v)>> :
                                v \in FieldValues(K_risk_indicators)}}

ProfileResponses == {ObjText(ms) : ms \in OwnersAndRisks} \cup {Prose, ScenarioResponse}

ProfileLlmOutcomes ==
    {[raises |-> TRUE, content |-> Null], [raises |-> FALSE, content |-> Null]}
    \cup {[raises |-> FALSE, content |-> Str(t)] : t \in ProfileResponses}

\* the most upserts, saves and clock ticks of one run
MaxUpserts == 3
MaxSaves == 3
MaxClock == 2

\* company names as operators type them
StoreNames == {<<"Acme">>, <<"ACME">>, <<"Beta">>, AcmeCorp}

NotAvailable == <<"N", "/", "A">>

\* the records update_company_data is handed for a company: its name under
\* 'Company Name', with or without a website
CompanyRecords(name) ==
    {[c \in {CompanyNameColumn} |-> Str(name)]}
    \cup {[c \in CompanyColumns |-> IF c = CompanyNameColumn THEN Str(name) ELSE Str(w)] :
            w \in {Url, NotAvailable}}

AcmeRow == [c \in CompanyColumns |-> IF c = CompanyNameColumn THEN Str(<<"Acme">>) ELSE Str(Url)]
BetaRow ==
    [c \in CompanyColumns |-> IF c = CompanyNameColumn THEN Str(<<"Beta">>) ELSE Str(NotAvailable)]

\* the company database before the run: absent, or one row per company
CompanyDbFiles == {AbsentFile, ToCsv(<<AcmeRow>>), ToCsv(<<BetaRow, AcmeRow>>)}

ProcessedData == {<<"Acme", " ", "builds", " ", "robots">>, NotAvailable}

\* the reports save_report is handed
ReportData ==
    {Dict(<<K_company_name, K_registration_number>>, <<Str(AcmeCorp), Str(r)>>) :
        r \in {Sentinel, <<"12345">>}}

\* the most sessions that log their usage in one run
MaxWriters == 2

Writers == 1..MaxWriters

ApiKey == <<"gsk_test">>

\* the row another run left in user_output.csv
EarlierEntry == NewEntry(ApiKey, <<"website">>, Url, Timestamp(0))

UserOutputFiles == {AbsentFile, ToCsv(<<EarlierEntry>>)}

\* the calls the sessions are about to make
UserOutputCalls ==
    {[pc |-> "idle",
      new_entry |-> NewEntry(ApiKey, <<"company_name">>, n, Timestamp(0)),
      df |-> <<>>] : n \in {<<"Acme">>, <<"Beta">>, AcmeCorp}}

\* ------------------------------------------------------------------ runs of the scripts and the apps

\* what a run left: the exception that ended it ("" when none did), the message
\* st.error showed, the LLM requests issued, whether a report was generated and
\* whether one was persisted, and all_results (Null while unbound)
Ended(exc, error, llm_requests, generated, persisted, all_results) ==
    [ended |-> TRUE, exc |-> exc, error |-> error, llm_requests |-> llm_requests,
     generated |-> generated, persisted |-> persisted, all_results |-> all_results]

NoRun ==
    [ended |-> FALSE, exc |-> "", error |-> <<>>, llm_requests |-> 0,
     generated |-> FALSE, persisted |-> FALSE, all_results |-> Null]

BrainCorp == <<"Brain", " ", "Corp">>

\* script_v1.py lines 39-58: generate_kyb_report
GenerateKybReportScriptV1(l) ==
    IF l.raises THEN Returned(Null, "llm_error")
    ELSE IF ~IsStr(l.content) THEN Raised("TypeError")
    ELSE LET parsed == JsonLoads(l.content.s)
         IN  IF parsed.ok THEN Returned(parsed.val, "parsed")
             ELSE Returned(Null, "parse_error")

\* script_v2.py lines 73-83: the record returned when json.loads raises
FallbackScriptV2(name, output_text) ==
    Dict(<<K_company_name, K_raw_data, K_registration_number, K_incorporation_date,
           K_beneficial_owners, K_financial_summary, K_risk_indicators>>,
         <<Str(name), Str(output_text), Str(Sentinel), Str(Sentinel),
           Str(Sentinel), Dict(<<K_details>>, <<Str(Sentinel)>>), Str(Sentinel)>>)

\* script_v2.py lines 44-83: generate_kyb_report
GenerateKybReportScriptV2(name, l) ==
    IF l.raises THEN Returned(Null, "llm_error")
    ELSE IF ~IsStr(l.content) THEN Raised("TypeError")
    ELSE LET output_text == ExtractV2(l.content.s)
             parsed == JsonLoads(output_text)
         IN  IF parsed.ok THEN Returned(parsed.val, "parsed")
             ELSE Returned(FallbackScriptV2(name, output_text), "fallback")

\* main() of the scripts from the return of generate_kyb_report on: the report is
\* merged, printed and, from script_v2.py on, saved; script_v3.py takes
\* len(beneficial_owners) at line 270
ScriptMainAfter(program, report) ==
    IF report.kind = "raise" THEN Ended(report.exc, <<>>, 1, FALSE, FALSE, Null)
    ELSE IF ~Truthy(report.value) THEN Ended("", <<>>, 1, FALSE, FALSE, Null)
    ELSE IF ~IsDict(report.value) THEN Ended("TypeError", <<>>, 1, FALSE, FALSE, Null)
    ELSE IF /\ program = "script_v3"
            /\ Truthy(DictGet(report.value, K_beneficial_owners, Null))
            /\ ~Sized(DictGet(report.value, K_beneficial_owners, Null))
    THEN Ended("TypeError", <<>>, 1, FALSE, FALSE, Null)
    ELSE Ended("", <<>>, 1, TRUE, program # "script_v1", Null)

\* main() of the scripts, for a website that cannot be fetched
\* (scrape_additional_data gives no leadership_info and no potential_risks):
\* script_v1.py lines 96-119, script_v2.py lines 155-189, script_v3.py lines 239-290
ScriptMain(program, l) ==
    ScriptMainAfter(program,
                    CASE program = "script_v1" -> GenerateKybReportScriptV1(l)
                      [] program = "script_v2" -> GenerateKybReportScriptV2(BrainCorp, l)
                      [] OTHER -> GenerateKybReportV2(BrainCorp, l))

\* a script that starts main() whatever GROQ_API_KEY holds
ScriptRun_NoCheck(program, credential, l) == ScriptMain(program, l)

\* the scripts from their first line: lines 11-13 of script_v1.py (12-14),
\* script_v2.py and script_v3.py, then main()
ScriptRun(program, credential, l) ==
    IF ~Truthy(credential) THEN Ended("ValueError", <<>>, 0, FALSE, FALSE, Null)
    ELSE ScriptMain(program, l)

EnterKeyV2 ==
    <<"Please", " ", "enter", " ", "your", " ", "Groq", " ", "API", " ", "Key", " ",
      "in", " ", "the", " ", "sidebar", ".">>
EnterNameV2 ==
    <<"Please", " ", "enter", " ", "a", " ", "Company", " ", "Name", " ", "in", " ",
      "the", " ", "sidebar", ".">>
EnterWebsiteV2 ==
    <<"Please", " ", "enter", " ", "a", " ", "Company", " ", "Website", " ", "in", " ",
      "the", " ", "sidebar", ".">>
EnterKeyV3 == <<"Please", " ", "enter", " ", "your", " ", "Groq", " ", "API", " ", "Key", ".">>
EnterNameV3 == <<"Please", " ", "enter", " ", "a", " ", "Company", " ", "Name", ".">>

\* a website that cannot be fetched
Unreachable(website) ==
    [NoFetch EXCEPT !.website = website, !.err = <<"timed", " ", "out">>]

\* app_v2.py lines 349-430: the single company branch from the return of
\* process_company on
AppV2SingleAfter(full_profile) ==
    IF full_profile.kind = "raise"
    THEN Ended(full_profile.exc, <<>>, 1, FALSE, FALSE, Null)
    ELSE IF HasKey(full_profile.value, K_error)
    THEN Ended("", DictGet(full_profile.value, K_error, Null).s, 1, FALSE, FALSE, Null)
    ELSE IF \E key \in {K_company_name, K_registration_number, K_incorporation_date} :
               ~HasKey(full_profile.value, key)
    THEN Ended("KeyError", <<>>, 1, TRUE, FALSE, Null)
    ELSE Ended("", <<>>, 1, TRUE, FALSE, Null)

\* app_v2.py lines 338-430: the single company branch; lines 357-359 read the
\* three fields by subscript
AppV2Single(api_key, name, website, l) ==
    IF ~Truthy(api_key) THEN Ended("", EnterKeyV2, 0, FALSE, FALSE, Null)
    ELSE IF name = <<>> THEN Ended("", EnterNameV2, 0, FALSE, FALSE, Null)
    ELSE IF website = <<>> THEN Ended("", EnterWebsiteV2, 0, FALSE, FALSE, Null)
    ELSE AppV2SingleAfter(ProcessCompanyV2(name, l, Unreachable(website)))

\* the names the def statements of app_v2.py bind, with the line of each def
DefsV2 ==
    {[name |-> "generate_kyb_report", line |-> 29],
     [name |-> "scrape_additional_data", line |-> 136],
     [name |-> "search_news_for_risks", line |-> 245],
     [name |-> "process_company", line |-> 252],
     [name |-> "save_api_key_to_csv", line |-> 644],
     [name |-> "find_company_website", line |-> 666],
     [name |-> "check_and_get_company_data", line |-> 676],
     [name |-> "update_company_data", line |-> 690],
     [name |-> "display_report", line |-> 712]}

\* the script runs from its first line in a fresh namespace: the functions bound
\* when the statement of a line runs
BoundAt(line) == {d.name : d \in {x \in DefsV2 : x.line < line}}

\* lines 560-563: the entry of a company whose processing raised; str(e) is
\* given as the name of the exception
ErrorEntry(name, exc) == Dict(<<K_company_name, K_error>>, <<Str(name), Str(<<exc>>)>>)

\* lines 472-473: "..." + result.get(...) raises TypeError for a value that is
\* no string
DisplayRaises(result) ==
    \/ ~IsStr(DictGet(result, K_registration_number, Str(<<"Not", " ", "available">>)))
    \/ ~IsStr(DictGet(result, K_incorporation_date, Str(<<"Not", " ", "available">>)))

\* lines 460-563: the entries of a company from the return of process_company
\* on: the result is appended at line 461, before it is displayed inside the
\* same try
EntriesAfter(name, result) ==
    IF result.kind = "raise" THEN <<ErrorEntry(name, result.exc)>>
    ELSE IF DisplayRaises(result.value)
         THEN <<result.value, ErrorEntry(name, "TypeError")>>
         ELSE <<result.value>>

\* lines 450-566: the entries one company adds to all_results
EntriesOf(row, website) ==
    EntriesAfter(row.name, ProcessCompanyV2(row.name, row.llm, Unreachable(website)))

RECURSIVE BatchLoop(_, _)
\* lines 448-566: all_results after the loop over companies_to_process
BatchLoop(rows, website) ==
    IF rows = <<>> THEN <<>>
    ELSE EntriesOf(Head(rows), website) \o BatchLoop(Tail(rows), website)

\* app_v2.py lines 568-608: the batch branch after the loop; one request was
\* issued for each company of companies_to_process
BatchAfter(llm_requests, all_results) ==
    Ended("", <<>>, llm_requests,
          \E i \in 1..Len(all_results) : ~HasKey(all_results[i], K_error),
          FALSE, List(all_results))

\* app_v2.py lines 431-608: the batch branch
AppV2Batch(api_key, csv_data, num_companies, website) ==
    IF ~Truthy(api_key) THEN Ended("", EnterKeyV2, 0, FALSE, FALSE, Null)
    ELSE IF "save_api_key_to_csv" \notin BoundAt(436)
    THEN Ended("NameError", <<>>, 0, FALSE, FALSE, Null)
    ELSE BatchAfter(num_companies,
                    BatchLoop(SubSeq(csv_data, 1, num_companies), website))

\* app_v3.py lines 700-718: the branch from the return of generate_kyb_report
\* on; a report that is truthy is shown and saved
AppV3After(kyb_report) ==
    Ended("", <<>>, 2, Truthy(kyb_report.value), Truthy(kyb_report.value), Null)

\* app_v3.py lines 679-718: the branch "Enter Company Name"; run_crew_analysis
\* issues its test request, generate_kyb_report its own; the web search finds
\* nothing
AppV3Run(api_key, name, l) ==
    IF ~Truthy(api_key) THEN Ended("", EnterKeyV3, 0, FALSE, FALSE, Null)
    ELSE IF name = <<>> THEN Ended("", EnterNameV3, 0, FALSE, FALSE, Null)
    ELSE AppV3After(GenerateKybReportV3(name, l, NoScrape))

\* the most companies the uploaded CSV holds
MaxCompanies == 2

\* what the LLM service answers a run
NumberedObject == ObjText(<<Member(K_registration_number, <<"12345">>)>>)

RunLlmOutcomes ==
    {[raises |-> TRUE, content |-> Null], [raises |-> FALSE, content |-> Null]}
    \cup {[raises |-> FALSE, content |-> Str(t)] :
            t \in {Prose, ScenarioObject, NumberedObject, <<"[", "5", "]">>}}

\* GROQ_API_KEY, or the key typed into the sidebar: absent, empty or a key
Credentials == {Null, Str(<<>>), Str(ApiKey)}

\* the rows of the uploaded CSV, each with what the LLM service answers for it
CsvRows == {[name |-> n, llm |-> l] : n \in {<<"Acme">>, <<"Beta">>}, l \in RunLlmOutcomes}

CsvData == UNION {[1..n -> CsvRows] : n \in 1..MaxCompanies}

\* what the operator sets before a run
ScriptInputs == {[llm |-> l] : l \in RunLlmOutcomes}

SingleInputs ==
    {[company_name |-> n, company_website |-> w, llm |-> l] :
        n \in {<<>>, AcmeCorp}, w \in {<<>>, Url}, l \in RunLlmOutcomes}

BatchInputs ==
    UNION {{[csv_data |-> d, num_companies |-> k] : k \in 1..Len(d)} : d \in CsvData}

\* ------------------------------------------------------------------ state

VARIABLES
    phase,          \* "idle", or the call that was made
    company_name,   \* the caller-supplied company name
    llm,            \* the outcome of the LLM call for this request
    scraped,        \* what scrape_web_for_company returned, when it was called
    output_text,    \* the text handed to json.loads
    result,         \* the outcome of generate_kyb_report
    again,          \* the field coercions applied to the returned record once more
    fetch,          \* the outcome of fetching the company website for this request
    enrichment_data, \* what scrape_additional_data returned, when it was called
    full_profile,   \* the outcome of process_company
    db_file,        \* "knowYourAi - Company Details.csv"
    db_call,        \* the last upsert: its arguments, the data frame it read, the
                    \* data frame it built and what it returned
    db_upserts,     \* the upserts made
    core_file,      \* core_dataset.csv
    core_saves,     \* the calls of save_to_core_dataset made
    clock,          \* datetime.now(), in seconds
    report_files,   \* the files of the reports directory: name and content
    report_saves,   \* the calls of save_report that returned
    out_file,       \* user_output.csv
    writer,         \* each session's call of update_user_output: its arguments,
                    \* where it stands, and its data frame
    exclusive,      \* no call has so far read the file between the read and the
                    \* write of another
    program,        \* the script or the app branch that runs
    credential,     \* GROQ_API_KEY, or the key typed into the sidebar
    inputs,         \* what the operator set before the run
    run             \* what the run left

request_vars == <<phase, company_name, llm, scraped, output_text, result, again>>

profile_vars == <<fetch, enrichment_data, full_profile>>

db_vars == <<db_file, db_call, db_upserts>>

core_vars == <<core_file, core_saves>>

report_vars == <<report_files, report_saves>>

out_vars == <<out_file, writer, exclusive>>

store_vars == <<db_vars, core_vars, clock, report_vars, out_vars>>

run_vars == <<program, credential, inputs, run>>

other_vars == <<store_vars, run_vars>>

\* what the actions on one store leave alone
beside_db ==
    <<request_vars, profile_vars, core_vars, clock, report_vars, out_vars, run_vars>>
beside_core ==
    <<request_vars, profile_vars, db_vars, clock, report_vars, out_vars, run_vars>>
beside_clock ==
    <<request_vars, profile_vars, db_vars, core_vars, report_vars, out_vars, run_vars>>
beside_out ==
    <<request_vars, profile_vars, db_vars, core_vars, clock, report_vars, run_vars>>
beside_reports ==
    <<request_vars, profile_vars, db_vars, core_vars, clock, out_vars, run_vars>>

vars == <<phase, company_name, llm, scraped, output_text, result, again, fetch,
          enrichment_data, full_profile, other_vars>>

NoCall ==
    [made |-> FALSE, company_name |-> <<>>, new_data |-> <<>>, before |-> Null,
     after |-> Null, returned |-> FALSE]

\* no request
NoRequest ==
    /\ phase = "idle"
    /\ company_name = AcmeCorp
    /\ llm = [raises |-> TRUE, content |-> Null]
    /\ scraped = NoScrape
    /\ output_text = <<>>
    /\ result = NoOutcome
    /\ again = Null
    /\ fetch = NoFetch
    /\ enrichment_data = Null
    /\ full_profile = NoOutcome

\* no company database
NoCompanyDb ==
    /\ db_file = AbsentFile
    /\ db_call = NoCall
    /\ db_upserts = 0

\* no core dataset
NoCoreDataset ==
    /\ core_file = AbsentFile
    /\ core_saves = 0

\* an empty reports directory
NoReports ==
    /\ report_files = {}
    /\ report_saves = 0

\* no usage log and no session
NoUserOutput ==
    /\ out_file = AbsentFile
    /\ writer = <<>>
    /\ exclusive = TRUE

\* no run
NoRuns ==
    /\ program = "none"
    /\ credential = Null
    /\ inputs = <<>>
    /\ run = NoRun

\* the stores as a run that writes none of them finds them
NoStores ==
    /\ NoCompanyDb
    /\ NoCoreDataset
    /\ clock = 0
    /\ NoReports
    /\ NoUserOutput

\* a request: the caller's company name, and what the LLM service will answer
Init ==
    /\ phase = "idle"
    /\ company_name \in CompanyNames
    /\ llm \in LlmOutcomes
    /\ scraped = NoScrape
    /\ output_text = <<>>
    /\ result = NoOutcome
    /\ again = Null
    /\ fetch = NoFetch
    /\ enrichment_data = Null
    /\ full_profile = NoOutcome
    /\ NoStores
    /\ NoRuns

\* app_v2.py: generate_kyb_report(company_name, company_website, api_key)
CallGenerateV2 ==
    /\ phase = "idle"
    /\ output_text' = IF ~llm.raises /\ IsStr(llm.content)
                      THEN ExtractV2(llm.content.s) ELSE <<>>
    /\ result' = GenerateKybReportV2(company_name, llm)
    /\ phase' = "v2"
    /\ UNCHANGED <<company_name, llm, scraped, again, profile_vars, other_vars>>

\* whether generate_kyb_report of app_v3.py reaches line 446 and calls
\* scrape_web_for_company
CallsScraperV3(l) ==
    /\ ~l.raises
    /\ IsStr(l.content)
    /\ LET parsed == JsonLoads(RepairV3(l.content.s))
       IN  /\ parsed.ok
           /\ IsDict(parsed.val)
           /\ IsDict(DictGet(parsed.val, K_financial_summary, EmptyDict))
           /\ ~HasDataV3(parsed.val)

\* app_v3.py: generate_kyb_report(company_name, company_website, api_key, model)
CallGenerateV3 ==
    /\ phase = "idle"
    /\ \E sc \in (IF CallsScraperV3(llm) THEN ScrapedTexts ELSE {NoScrape}) :
        /\ scraped' = sc
        /\ result' = GenerateKybReportV3(company_name, llm, sc)
    /\ output_text' = IF ~llm.raises /\ IsStr(llm.content)
                      THEN RepairV3(llm.content.s) ELSE <<>>
    /\ phase' = "v3"
    /\ UNCHANGED <<company_name, llm, again, profile_vars, other_vars>>

\* app_v2.py lines 107-121 applied to the record generate_kyb_report returned
RecoerceV2 ==
    /\ phase = "v2"
    /\ result.kind = "return"
    /\ IsDict(result.value)
    /\ again' = CoerceV2(result.value)
    /\ phase' = "v2_again"
    /\ UNCHANGED <<company_name, llm, scraped, output_text, result, profile_vars, other_vars>>

\* app_v3.py lines 489-508 applied to the record generate_kyb_report returned
RecoerceV3 ==
    /\ phase = "v3"
    /\ result.kind = "return"
    /\ IsDict(result.value)
    /\ again' = CoerceV3(company_name, result.value)
    /\ phase' = "v3_again"
    /\ UNCHANGED <<company_name, llm, scraped, output_text, result, profile_vars, other_vars>>

Next ==
    \/ CallGenerateV2
    \/ CallGenerateV3
    \/ RecoerceV2
    \/ RecoerceV3

Spec == Init /\ [][Next]_vars

\* a request to process_company or to a scraper: the caller's company name, what
\* the LLM service will answer and what the website will
InitProfile ==
    /\ phase = "idle"
    /\ company_name \in CompanyNames
    /\ llm \in ProfileLlmOutcomes
    /\ fetch \in Fetches
    /\ scraped = NoScrape
    /\ output_text = <<>>
    /\ result = NoOutcome
    /\ again = Null
    /\ enrichment_data = Null
    /\ full_profile = NoOutcome
    /\ NoStores
    /\ NoRuns

\* app_v2.py: process_company(company_name, company_website, api_key)
CallProcessCompanyV2 ==
    /\ phase = "idle"
    /\ output_text' = IF ~llm.raises /\ IsStr(llm.content)
                      THEN ExtractV2(llm.content.s) ELSE <<>>
    /\ result' = GenerateKybReportV2(company_name, llm)
    /\ enrichment_data' =
            IF result'.kind = "return" /\ Truthy(result'.value)
            THEN ScrapeAdditionalDataV2(fetch) ELSE Null
    /\ full_profile' = ProcessCompanyV2(company_name, llm, fetch)
    /\ phase' = "v2_profile"
    /\ UNCHANGED <<company_name, llm, scraped, again, fetch, other_vars>>

\* app_v2.py: scrape_additional_data(company_name, company_website)
CallScrapeV2 ==
    /\ phase = "idle"
    /\ enrichment_data' = ScrapeAdditionalDataV2(fetch)
    /\ phase' = "scrape_v2"
    /\ UNCHANGED <<company_name, llm, scraped, output_text, result, again, fetch,
                   full_profile, other_vars>>

\* script_v3.py: scrape_additional_data(company_name, company_website)
CallScrapeScriptV3 ==
    /\ phase = "idle"
    /\ enrichment_data' = ScrapeAdditionalDataScriptV3(fetch)
    /\ phase' = "scrape_script_v3"
    /\ UNCHANGED <<company_name, llm, scraped, output_text, result, again, fetch,
                   full_profile, other_vars>>

\* app_v3.py: scrape_additional_data(company_website)
CallScrapeV3 ==
    /\ phase = "idle"
    /\ enrichment_data' = ScrapeAdditionalDataV3(fetch)
    /\ phase' = "scrape_v3"
    /\ UNCHANGED <<company_name, llm, scraped, output_text, result, again, fetch,
                   full_profile, other_vars>>

NextProfile ==
    \/ CallProcessCompanyV2
    \/ CallScrapeV2
    \/ CallScrapeScriptV3
    \/ CallScrapeV3

SpecProfile == InitProfile /\ [][NextProfile]_vars

\* the company database as the run finds it
InitCompanyDb ==
    /\ NoRequest
    /\ db_file \in CompanyDbFiles
    /\ db_call = NoCall
    /\ db_upserts = 0
    /\ NoCoreDataset
    /\ clock = 0
    /\ NoReports
    /\ NoUserOutput
    /\ NoRuns

\* app_v2.py: an upsert of new_data under company_name:
\* check_and_get_company_data reads the data frame, update_company_data is
\* handed it
UpsertCompany(name, new_data) ==
    /\ db_upserts < MaxUpserts
    /\ LET existing_df == CheckAndGetCompanyData(db_file, name).df
           done == UpdateCompanyData(db_file, name, new_data, existing_df)
       IN  /\ db_file' = done.file
           /\ db_call' = [made |-> TRUE, company_name |-> name, new_data |-> new_data,
                          before |-> existing_df, after |-> done.df,
                          returned |-> done.returned]
    /\ db_upserts' = db_upserts + 1
    /\ UNCHANGED beside_db

NextCompanyDb ==
    \E name \in StoreNames : \E new_data \in CompanyRecords(name) :
        UpsertCompany(name, new_data)

SpecCompanyDb == InitCompanyDb /\ [][NextCompanyDb]_vars

\* the core dataset of app_v3.py: absent before the first save
InitCoreDataset ==
    /\ NoRequest
    /\ NoStores
    /\ NoRuns

\* a second passes
Tick ==
    /\ clock < MaxClock
    /\ clock' = clock + 1
    /\ UNCHANGED beside_clock

\* app_v3.py: save_to_core_dataset(company_name, processed_data)
CallSaveToCoreDataset(name, processed_data) ==
    /\ core_saves < MaxSaves
    /\ core_file' = SaveToCoreDataset(core_file, name, processed_data, clock)
    /\ core_saves' = core_saves + 1
    /\ UNCHANGED beside_core

NextCoreDataset ==
    \/ Tick
    \/ \E name \in StoreNames : \E processed_data \in ProcessedData :
            CallSaveToCoreDataset(name, processed_data)

SpecCoreDataset == InitCoreDataset /\ [][NextCoreDataset]_vars

\* the reports directory of app_v3.py: empty before the first save
InitReports ==
    /\ NoRequest
    /\ NoStores
    /\ NoRuns

\* app_v3.py: save_report(company_name, kyb_report)
CallSaveReport(name, report_data) ==
    /\ report_saves < MaxSaves
    /\ report_files' = SaveReport(report_files, name, report_data, clock)
    /\ report_saves' = report_saves + 1
    /\ UNCHANGED beside_reports

NextReports ==
    \/ Tick
    \/ \E name \in StoreNames : \E report_data \in ReportData :
            CallSaveReport(name, report_data)

SpecReports == InitReports /\ [][NextReports]_vars

\* app_v3.py: the sessions, each about to call update_user_output, and the usage
\* log as they find it
InitUserOutput ==
    /\ NoRequest
    /\ NoCompanyDb
    /\ NoCoreDataset
    /\ clock = 0
    /\ NoReports
    /\ out_file \in UserOutputFiles
    /\ writer \in [Writers -> UserOutputCalls]
    /\ exclusive = TRUE
    /\ NoRuns

\* update_user_output lines 555-567 in session w: the file is read and the new
\* entry added to the data frame
ReadUserOutput(w) ==
    /\ writer[w].pc = "idle"
    /\ writer' = [writer EXCEPT ![w].pc = "read",
                                ![w].df = AddEntry(out_file, writer[w].new_entry)]
    /\ exclusive' = (exclusive /\ \A v \in DOMAIN writer : writer[v].pc # "read")
    /\ UNCHANGED <<out_file, beside_out>>

\* update_user_output line 568 in session w: the data frame is written
WriteUserOutput(w) ==
    /\ writer[w].pc = "read"
    /\ out_file' = ToCsv(writer[w].df)
    /\ writer' = [writer EXCEPT ![w].pc = "done"]
    /\ UNCHANGED <<exclusive, beside_out>>

NextUserOutput ==
    \/ \E w \in DOMAIN writer : ReadUserOutput(w)
    \/ \E w \in DOMAIN writer : WriteUserOutput(w)

SpecUserOutput == InitUserOutput /\ [][NextUserOutput]_vars

\* a script or an app branch about to run: the credential and what the operator
\* set; no store is written
InitRuns ==
    /\ NoRequest
    /\ NoStores
    /\ credential \in Credentials
    /\ \/ program \in {"script_v1", "script_v2", "script_v3"} /\ inputs \in ScriptInputs
       \/ program \in {"app_v2_single", "app_v3"} /\ inputs \in SingleInputs
       \/ program = "app_v2_batch" /\ inputs \in BatchInputs
    /\ run = NoRun

\* python script_v1.py, script_v2.py or script_v3.py
RunScript ==
    /\ program \in {"script_v1", "script_v2", "script_v3"}
    /\ ~run.ended
    /\ run' = ScriptRun(program, credential, inputs.llm)
    /\ UNCHANGED <<request_vars, profile_vars, store_vars, program, credential, inputs>>

\* app_v2.py: "Single Company", the button "Generate KYB Report" pressed
RunAppV2Single ==
    /\ program = "app_v2_single"
    /\ ~run.ended
    /\ run' = AppV2Single(credential, inputs.company_name, inputs.company_website,
                          inputs.llm)
    /\ UNCHANGED <<request_vars, profile_vars, store_vars, program, credential, inputs>>

\* app_v2.py: "Batch Processing (CSV)", the button "Process Companies" pressed
RunAppV2Batch ==
    /\ program = "app_v2_batch"
    /\ ~run.ended
    /\ run' = AppV2Batch(credential, inputs.csv_data, inputs.num_companies, Url)
    /\ UNCHANGED <<request_vars, profile_vars, store_vars, program, credential, inputs>>

\* app_v3.py: "Enter Company Name", the button "Generate Report" pressed
RunAppV3 ==
    /\ program = "app_v3"
    /\ ~run.ended
    /\ run' = AppV3Run(credential, inputs.company_name, inputs.llm)
    /\ UNCHANGED <<request_vars, profile_vars, store_vars, program, credential, inputs>>

NextRuns ==
    \/ RunScript
    \/ RunAppV2Single
    \/ RunAppV2Batch
    \/ RunAppV3

SpecRuns == InitRuns /\ [][NextRuns]_vars

\* ------------------------------------------------------------------ claims

\* the LLM call returned a completion that holds a text
GotText == ~llm.raises /\ IsStr(llm.content)

\* the object json.loads made of the text handed to it
Parsed == JsonLoads(output_text)

InV2 == phase \in {"v2", "v2_again"}
InV3 == phase \in {"v3", "v3_again"}

\* t holds an opening json fence and, after it, a closing fence
HasFencedBlock(t) ==
    \E i \in 1..Len(t) :
        /\ StartsAt(t, FenceOpen, i)
        /\ \E j \in (i + Len(FenceOpen))..Len(t) : StartsAt(t, Fence, j)

\* x is the interior of the first fenced block of t, without the whitespace
\* around it
IsFirstInterior(t, x) ==
    \E i \in 1..Len(t) :
        /\ StartsAt(t, FenceOpen, i)
        /\ \A h \in 1..(i - 1) : ~StartsAt(t, FenceOpen, h)
        /\ \E j \in (i + Len(FenceOpen))..Len(t) :
            /\ StartsAt(t, Fence, j)
            /\ \A h \in (i + Len(FenceOpen))..(j - 1) : ~StartsAt(t, Fence, h)
            /\ x = Strip(SubSeq(t, i + Len(FenceOpen), j - 1))

\* x is the span of t from its first "{" to its last "}"
IsBraceSpan(t, x) ==
    \E i \in 1..Len(t) :
        /\ t[i] = "{"
        /\ \A h \in 1..(i - 1) : t[h] # "{"
        /\ \E j \in (i + 1)..Len(t) :
            /\ t[j] = "}"
            /\ \A h \in (j + 1)..Len(t) : t[h] # "}"
            /\ x = SubSeq(t, i, j)

HasBraceSpan(t) == \E i \in 1..Len(t) : t[i] = "{" /\ \E j \in (i + 1)..Len(t) : t[j] = "}"

\* the responses that hold the body b in a fenced block and another object bare
FenceBesideBare(b) ==
    {Fenced(b) \o <<"\n">> \o OtherObject, OtherObject \o <<"\n">> \o Fenced(b)}

\* the body b of a response Fenced(b), line break, OtherObject, and of a response
\* OtherObject, line break, Fenced(b)
BodyBeforeBare(t) ==
    SubSeq(t, Len(FenceOpen) + 2, Len(t) - Len(OtherObject) - Len(Fence) - 2)
BodyAfterBare(t) ==
    SubSeq(t, Len(OtherObject) + Len(FenceOpen) + 3, Len(t) - Len(Fence) - 1)

\* C1: the text parsed is the interior of the fenced json block when the response
\* holds one, otherwise the span from the first "{" to the last "}", otherwise the
\* whole response; a response that holds a fenced block beside a different bare
\* object gives the fenced block's content
C1_ExtractionPrecedence ==
    (InV2 /\ GotText) =>
        LET t == llm.content.s
        IN  /\ HasFencedBlock(t) => IsFirstInterior(t, output_text)
            /\ (~HasFencedBlock(t) /\ HasBraceSpan(t)) => IsBraceSpan(t, output_text)
            /\ (~HasFencedBlock(t) /\ ~HasBraceSpan(t)) => output_text = t
            /\ \A b \in {BodyBeforeBare(t), BodyAfterBare(t)} :
                t \in FenceBesideBare(b) =>
                    /\ output_text = b
                    /\ (JsonLoads(b).ok /\ IsDict(JsonLoads(b).val)) =>
                            result = Returned(CoerceV2(JsonLoads(b).val), "parsed")

C1_Witness ==
    /\ phase = "v2"
    /\ llm.content = Str(OtherObject \o <<"\n">> \o Fenced(ScenarioObject))
    /\ output_text = ScenarioObject
    /\ result.via = "parsed"
    /\ DictGet(result.value, K_registration_number, Null) = Str(<<"12345">>)

\* C2: for the caller's name "Acme Corp" and the scenario response, the record
\* returned has company_name "Acme Corp", registration_number "12345", no
\* beneficial owners, the risk indicators "lawsuit" and "fine", and the financial
\* summary {"details": "Revenue $5M"}
C2_EndToEndScenario ==
    (/\ phase = "v2"
     /\ company_name = AcmeCorp
     /\ llm = [raises |-> FALSE, content |-> Str(ScenarioResponse)]) =>
        /\ result.kind = "return"
        /\ IsDict(result.value)
        /\ DictGet(result.value, K_company_name, Null) = Str(AcmeCorp)
        /\ DictGet(result.value, K_registration_number, Null) = Str(<<"12345">>)
        /\ DictGet(result.value, K_beneficial_owners, Null) = EmptyList
        /\ DictGet(result.value, K_risk_indicators, Null)
                = List(<<Str(<<"lawsuit">>), Str(<<"fine">>)>>)
        /\ DictGet(result.value, K_financial_summary, Null)
                = Dict(<<K_details>>, <<Str(<<"Revenue", " ", "$", "5", "M">>)>>)

\* r is the fallback record for the caller's name: the sentinel in every field,
\* and a raw_data field
IsFallbackRecord(r, name) ==
    /\ IsDict(r)
    /\ DictGet(r, K_company_name, Null) = Str(name)
    /\ DictGet(r, K_registration_number, Null) = Str(Sentinel)
    /\ DictGet(r, K_incorporation_date, Null) = Str(Sentinel)
    /\ DictGet(r, K_beneficial_owners, Null) = EmptyList
    /\ DictGet(r, K_risk_indicators, Null) = EmptyList
    /\ DictGet(r, K_financial_summary, Null) = Dict(<<K_details>>, <<Str(Sentinel)>>)
    /\ HasKey(r, K_raw_data)

\* C3: a completion that is absent, or whose text does not parse as JSON after
\* extraction, raises nothing and gives the fallback record
C3_UnparseableGivesFallback ==
    (/\ phase = "v2"
     /\ ~llm.raises
     /\ (~IsStr(llm.content) \/ ~Parsed.ok)) =>
        /\ result.kind = "return"
        /\ IsFallbackRecord(result.value, company_name)

\* C4: the raw_data of the fallback record is the response text as received
C4_RawDataIsOriginal ==
    (phase = "v2" /\ result.via = "fallback") =>
        DictGet(result.value, K_raw_data, Null) = llm.content

\* C5: every record returned holds beneficial_owners and risk_indicators, and
\* both are sequences
C5_OwnersAndRisksAreSequences ==
    (phase = "v2" /\ GotText /\ result.kind = "return" /\ IsDict(result.value)) =>
        /\ HasKey(result.value, K_beneficial_owners)
        /\ IsList(DictGet(result.value, K_beneficial_owners, Null))
        /\ HasKey(result.value, K_risk_indicators)
        /\ IsList(DictGet(result.value, K_risk_indicators, Null))

\* C6: a parsed object whose financial_summary is a string, a list or a number
\* gives a record whose financial_summary is {"details": str(that value)}
C6_FinancialSummaryWrapped ==
    (/\ phase = "v3"
     /\ GotText
     /\ Parsed.ok
     /\ IsDict(Parsed.val)
     /\ DictGet(Parsed.val, K_financial_summary, EmptyDict).t \in {"str", "list", "num"}) =>
        /\ result.kind = "return"
        /\ IsDict(result.value)
        /\ DictGet(result.value, K_financial_summary, Null)
                = Dict(<<K_details>>,
                       <<Str(PyStr(DictGet(Parsed.val, K_financial_summary, Null)))>>)

\* C7: every record generate_kyb_report of app_v3.py returns holds the caller's
\* company name
C7_CompanyNameIsCallers ==
    (InV3 /\ result.kind = "return" /\ IsDict(result.value)) =>
        DictGet(result.value, K_company_name, Null) = Str(company_name)

C7_Witness ==
    /\ phase = "v3"
    /\ result.via = "merged"
    /\ company_name = AcmeCorp
    /\ DictGet(Parsed.val, K_company_name, Null) = Str(<<"AcmeCo">>)
    /\ DictGet(result.value, K_company_name, Null) = Str(AcmeCorp)

\* C8: for every response text the output holds exactly the six canonical fields,
\* the three names strings, the owners and risks sequences, the summary a mapping
C8_ExactlySixFields ==
    (phase = "v2" /\ GotText) =>
        /\ result.kind = "return"
        /\ IsDict(result.value)
        /\ {result.value.k[i] : i \in 1..Len(result.value.k)} = CanonicalKeys
        /\ IsStr(DictGet(result.value, K_company_name, Null))
        /\ IsStr(DictGet(result.value, K_registration_number, Null))
        /\ IsStr(DictGet(result.value, K_incorporation_date, Null))
        /\ IsList(DictGet(result.value, K_beneficial_owners, Null))
        /\ IsDict(DictGet(result.value, K_financial_summary, Null))
        /\ IsList(DictGet(result.value, K_risk_indicators, Null))

\* C9: the field coercions applied to a record they produced give the same record
C9_CoercionsIdempotent ==
    /\ (phase = "v2_again" /\ result.via = "parsed") => again = result.value
    /\ phase = "v3_again" => again = result.value

C9_Witness ==
    /\ phase = "v3_again"
    /\ IsStr(DictGet(Parsed.val, K_beneficial_owners, Null))
    /\ DictGet(Parsed.val, K_beneficial_owners, Null) # Str(Sentinel)
    /\ ~HasKey(Parsed.val, K_financial_summary)
    /\ again = result.value

\* C10: a beneficial_owners equal to the sentinel string becomes the empty
\* sequence, any other string s becomes [{"name": s, "ownership_percentage":
\* "Unknown"}], and a sequence stays as it is
C10_OwnersCoercion ==
    (InV2 /\ result.via = "parsed") =>
        LET in == DictGet(Parsed.val, K_beneficial_owners, Null)
            out == DictGet(result.value, K_beneficial_owners, Null)
        IN  /\ in = Str(Sentinel) => out = EmptyList
            /\ (IsStr(in) /\ in # Str(Sentinel)) =>
                    out = List(<<Dict(<<K_name, K_ownership_percentage>>,
                                      <<in, Str(Unknown)>>)>>)
            /\ IsList(in) => out = in

C10_Witness ==
    /\ phase = "v2"
    /\ result.via = "parsed"
    /\ DictGet(Parsed.val, K_beneficial_owners, Null) = Str(<<"Jane", " ", "Doe">>)
    /\ DictGet(result.value, K_beneficial_owners, Null)
            = List(<<Dict(<<K_name, K_ownership_percentage>>,
                          <<Str(<<"Jane", " ", "Doe">>), Str(Unknown)>>)>>)

\* the positions of the commas of s, and the n-th of them
CommaPositions(s) == {i \in 1..Len(s) : s[i] = ","}
NthComma(s, n) ==
    CHOOSE c \in CommaPositions(s) : Cardinality({d \in CommaPositions(s) : d < c}) = n - 1

\* the n-th of the segments the commas cut s into
Segment(s, n) ==
    SubSeq(s,
           IF n = 1 THEN 1 ELSE NthComma(s, n - 1) + 1,
           IF n = Cardinality(CommaPositions(s)) + 1 THEN Len(s) ELSE NthComma(s, n) - 1)

\* x is seg without the whitespace at its two ends
IsTrimOf(x, seg) ==
    \/ x = <<>> /\ \A h \in 1..Len(seg) : seg[h] \in WS
    \/ \E i \in 1..Len(seg) : \E j \in i..Len(seg) :
            /\ x = SubSeq(seg, i, j)
            /\ seg[i] \notin WS /\ seg[j] \notin WS
            /\ \A h \in 1..(i - 1) : seg[h] \in WS
            /\ \A h \in (j + 1)..Len(seg) : seg[h] \in WS

\* C11: a risk_indicators equal to the sentinel string becomes the empty sequence;
\* any other string becomes the sequence of its comma-separated segments, each
\* without the whitespace around it, in their order; a sequence stays as it is
C11_RisksCoercion ==
    (InV2 /\ result.via = "parsed") =>
        LET in == DictGet(Parsed.val, K_risk_indicators, Null)
            out == DictGet(result.value, K_risk_indicators, Null)
        IN  /\ in = Str(Sentinel) => out = EmptyList
            /\ (IsStr(in) /\ in # Str(Sentinel)) =>
                    /\ IsList(out)
                    /\ Len(out.items) = Cardinality(CommaPositions(in.s)) + 1
                    /\ \A n \in 1..Len(out.items) :
                            /\ IsStr(out.items[n])
                            /\ IsTrimOf(out.items[n].s, Segment(in.s, n))
            /\ IsList(in) => out = in

C11_Witness ==
    /\ phase = "v2"
    /\ result.via = "parsed"
    /\ DictGet(Parsed.val, K_risk_indicators, Null)
            = Str(<<" ", "fraud", " ", ",", ",", "fine", " ">>)
    /\ DictGet(result.value, K_risk_indicators, Null)
            = List(<<Str(<<"fraud">>), Str(<<>>), Str(<<"fine">>)>>)

\* C12: a response that is valid JSON but for single quotes, a comma before the
\* closing brace or a fence around it parses, after the repair pass, to the object
\* the valid JSON denotes; the response {'a': 'b',} parses to {"a": "b"}
C12_RepairCorrectness ==
    (phase = "v3" /\ GotText) =>
        /\ \A c \in CleanObjects :
                llm.content.s \in Defected(c) =>
                    /\ Parsed.ok
                    /\ Parsed.val = JsonLoads(c).val
        /\ llm.content.s = TrailingComma(SingleQuoted(ABObject)) =>
                /\ Parsed.ok
                /\ Parsed.val = Dict(<<(<<"a">>)>>, <<Str(<<"b">>)>>)

\* C13: in the record generate_kyb_report of app_v3.py returns, every canonical
\* field the parsed object does not hold has its default: the sentinel for
\* registration_number and incorporation_date, the empty sequence for
\* beneficial_owners and risk_indicators, {"details": sentinel} for
\* financial_summary; no field is missing, null or the empty string
C13_SentinelDefaults ==
    (phase = "v3" /\ result.kind = "return" /\ IsDict(result.value)) =>
        /\ ~HasKey(Parsed.val, K_registration_number) =>
                DictGet(result.value, K_registration_number, Null) = Str(Sentinel)
        /\ ~HasKey(Parsed.val, K_incorporation_date) =>
                DictGet(result.value, K_incorporation_date, Null) = Str(Sentinel)
        /\ ~HasKey(Parsed.val, K_beneficial_owners) =>
                DictGet(result.value, K_beneficial_owners, Null) = EmptyList
        /\ ~HasKey(Parsed.val, K_risk_indicators) =>
                DictGet(result.value, K_risk_indicators, Null) = EmptyList
        /\ ~HasKey(Parsed.val, K_financial_summary) =>
                DictGet(result.value, K_financial_summary, Null)
                    = Dict(<<K_details>>, <<Str(Sentinel)>>)
        /\ \A key \in CanonicalKeys :
                /\ HasKey(result.value, key)
                /\ DictGet(result.value, key, Null) \notin {Null, Str(<<>>)}

\* C17: when generate_kyb_report of app_v3.py folds the scraped data into the
\* report, every field other than company_name whose value in the parsed object
\* is non-empty and not the sentinel has that same value in the returned record
C17_MergeOnlyFillsGaps ==
    (phase = "v3" /\ result.via = "merged") =>
        \A key \in CanonicalKeys \ {K_company_name} :
            LET v == DictGet(Parsed.val, key, Null)
            IN  (HasKey(Parsed.val, key) /\ Truthy(v) /\ v # Str(Sentinel)) =>
                    DictGet(result.value, key, Null) = v

\* process_company of app_v2.py got a report from generate_kyb_report and went on
\* to the merge
Merging == phase = "v2_profile" /\ result.kind = "return" /\ Truthy(result.value)

ReportOwners == DictGet(result.value, K_beneficial_owners, Null)
ReportRisks == DictGet(result.value, K_risk_indicators, Null)
ScrapedLeaders == DictGet(enrichment_data, K_leadership_info, Null)
ScrapedRisks == DictGet(enrichment_data, K_potential_risks, Null)

\* C14: when the report's beneficial_owners is the empty sequence and the scraped
\* leadership_info is a non-empty sequence, the profile process_company returns
\* has one owner for each leadership entry, in the same order, each with the
\* entry's name, the ownership_percentage "Unknown" and the entry's title
C14_OwnersFromLeadership ==
    (/\ Merging
     /\ ReportOwners = EmptyList
     /\ IsList(ScrapedLeaders)
     /\ ScrapedLeaders.items # <<>>) =>
        /\ full_profile.kind = "return"
        /\ LET out == DictGet(full_profile.value, K_beneficial_owners, Null)
           IN  /\ IsList(out)
               /\ Len(out.items) = Len(ScrapedLeaders.items)
               /\ \A i \in 1..Len(out.items) :
                    out.items[i] =
                        Dict(<<K_name, K_ownership_percentage, K_title>>,
                             <<DictGet(ScrapedLeaders.items[i], K_name, Null),
                               Str(Unknown),
                               DictGet(ScrapedLeaders.items[i], K_title, Null)>>)

C14_Witness ==
    /\ Merging
    /\ ReportOwners = EmptyList
    /\ Len(fetch.leaders) = 2
    /\ fetch.leaders[1].name # fetch.leaders[2].name
    /\ full_profile.kind = "return"
    /\ Len(DictGet(full_profile.value, K_beneficial_owners, Null).items) = 2
    /\ DictGet(DictGet(full_profile.value, K_beneficial_owners, Null).items[1], K_title, Null)
            = Str(fetch.leaders[1].title)

\* C15: when the report's beneficial_owners is non-empty, the profile
\* process_company returns holds the report's beneficial_owners unchanged,
\* whatever leadership_info the scraper gave
C15_OwnersTakePrecedence ==
    (Merging /\ Sized(ReportOwners) /\ Truthy(ReportOwners)) =>
        /\ full_profile.kind = "return"
        /\ DictGet(full_profile.value, K_beneficial_owners, Null) = ReportOwners

C15_Witness ==
    /\ Merging
    /\ IsList(ReportOwners)
    /\ ReportOwners.items # <<>>
    /\ IsList(ScrapedLeaders)
    /\ ScrapedLeaders.items # <<>>
    /\ full_profile.kind = "return"
    /\ DictGet(full_profile.value, K_beneficial_owners, Null) = ReportOwners

\* C16: when the scraped potential_risks is a non-empty list, the merged
\* risk_indicators is the scraped list if the report's risk_indicators was empty,
\* and otherwise the report's risk_indicators followed by the scraped risks, in
\* order and with duplicates kept: its length is the sum of the two lengths
C16_RisksConcatenated ==
    (/\ Merging
     /\ ~(Truthy(ReportOwners) /\ ~Sized(ReportOwners))
     /\ IsList(ReportRisks)
     /\ IsList(ScrapedRisks)
     /\ ScrapedRisks.items # <<>>) =>
        /\ full_profile.kind = "return"
        /\ LET out == DictGet(full_profile.value, K_risk_indicators, Null)
           IN  /\ IsList(out)
               /\ ReportRisks.items = <<>> => out = ScrapedRisks
               /\ Len(out.items) = Len(ReportRisks.items) + Len(ScrapedRisks.items)
               /\ \A i \in 1..Len(ReportRisks.items) : out.items[i] = ReportRisks.items[i]
               /\ \A i \in 1..Len(ScrapedRisks.items) :
                    out.items[Len(ReportRisks.items) + i] = ScrapedRisks.items[i]

C16_Witness ==
    /\ Merging
    /\ ReportRisks = List(<<Str(<<"Lawsuit", " ", "2022">>)>>)
    /\ IsList(ScrapedRisks)
    /\ Len(ScrapedRisks.items) = 1
    /\ full_profile.kind = "return"
    /\ DictGet(full_profile.value, K_risk_indicators, Null)
            = List(<<Str(<<"Lawsuit", " ", "2022">>), ScrapedRisks.items[1]>>)

\* C18: for every report and every scraped record whose leadership_info or
\* potential_risks is missing or a sentinel string, the merge raises nothing, a
\* missing or sentinel leadership_info leaves beneficial_owners unchanged and a
\* missing or sentinel potential_risks leaves risk_indicators unchanged
C18_MergeHasNoErrors ==
    Merging =>
        LET noLeaders == ScrapedLeaders \in {Null, Str(NotFoundOnWebsite)}
            noRisks == ScrapedRisks \in {Null, Str(NoneDetected)}
        IN  /\ (noLeaders \/ noRisks) => full_profile.kind = "return"
            /\ noLeaders =>
                    DictGet(full_profile.value, K_beneficial_owners, Null) = ReportOwners
            /\ noRisks =>
                    DictGet(full_profile.value, K_risk_indicators, Null) = ReportRisks

\* C19: when the LLM call raises, process_company returns a record that holds the
\* six canonical fields: the caller's company name, the sentinel for
\* registration_number and incorporation_date, no owners, no risks and the
\* sentinel financial summary
C19_TransportFailureGivesReport ==
    (phase = "v2_profile" /\ llm.raises) =>
        /\ full_profile.kind = "return"
        /\ IsDict(full_profile.value)
        /\ \A key \in CanonicalKeys : HasKey(full_profile.value, key)
        /\ DictGet(full_profile.value, K_company_name, Null) = Str(company_name)
        /\ DictGet(full_profile.value, K_registration_number, Null) = Str(Sentinel)
        /\ DictGet(full_profile.value, K_incorporation_date, Null) = Str(Sentinel)
        /\ IsList(DictGet(full_profile.value, K_beneficial_owners, Null))
        /\ IsList(DictGet(full_profile.value, K_risk_indicators, Null))
        /\ IsDict(DictGet(full_profile.value, K_financial_summary, Null))

\* scrape_additional_data was called and the fetch of the website failed
FetchFailed ==
    \/ phase \in {"scrape_v2", "scrape_script_v3"} /\ ~fetch.ok
    \/ phase = "scrape_v3" /\ fetch.website # <<>> /\ ~fetch.ok

\* C20 as stated: when the fetch fails, scrape_additional_data of app_v2.py,
\* app_v3.py and script_v3.py returns the record whose only field is about_info,
\* with the value "Failed to retrieve website data"
C20_DegradedRecordAsStated ==
    FetchFailed => enrichment_data = Dict(<<K_about_info>>, <<Str(FailedToRetrieve)>>)

\* C20: when the fetch fails, scrape_additional_data raises nothing and returns a
\* record whose only field is about_info: "Failed to retrieve website data" in
\* script_v3.py, that text followed by ": " and the text of the error in
\* app_v2.py, "Failed to retrieve data" in app_v3.py
C20_DegradedRecord ==
    FetchFailed =>
        /\ IsDict(enrichment_data)
        /\ enrichment_data.k = <<K_about_info>>
        /\ IsStr(enrichment_data.items[1])
        /\ phase = "scrape_script_v3" => enrichment_data.items[1].s = FailedToRetrieve
        /\ phase = "scrape_v2" =>
                enrichment_data.items[1].s = FailedToRetrieve \o <<":", " ">> \o fetch.err
        /\ phase = "scrape_v3" => enrichment_data.items[1].s = FailedToRetrieveV3

C20_Witness ==
    /\ phase = "scrape_v2"
    /\ ~fetch.ok
    /\ fetch.err = <<"timed", " ", "out">>
    /\ enrichment_data =
            Dict(<<K_about_info>>,
                 <<Str(FailedToRetrieve \o <<":", " ", "timed", " ", "out">>)>>)

\* the value the response text denotes, parsed as it was received
Received == JsonLoads(llm.content.s)

\* a field that carries no entries: absent, empty, or the sentinel
NoEntries(r, key) ==
    \/ ~HasKey(r, key)
    \/ ~Truthy(DictGet(r, key, Null))
    \/ DictGet(r, key, Null) = Str(Sentinel)

\* the parsed report lacks data, as the claim states it
LacksData(r) ==
    /\ DictGet(r, K_registration_number, Str(Sentinel)) = Str(Sentinel)
    /\ DictGet(r, K_incorporation_date, Str(Sentinel)) = Str(Sentinel)
    /\ NoEntries(r, K_beneficial_owners)
    /\ NoEntries(r, K_risk_indicators)
    /\ LET fs == DictGet(r, K_financial_summary, EmptyDict)
       IN  DictGet(fs, K_revenue, Str(Sentinel)) = Str(Sentinel)

\* C27: generate_kyb_report of app_v3.py calls scrape_web_for_company exactly
\* when the parsed report lacks data: registration_number and incorporation_date
\* absent or the sentinel, beneficial_owners and risk_indicators without entries
\* (absent, empty or the sentinel), financial_summary without a revenue other
\* than the sentinel (for a report whose financial_summary, when held, is an
\* object)
C27_FallbackTrigger ==
    (/\ phase = "v3"
     /\ GotText
     /\ Parsed.ok
     /\ IsDict(Parsed.val)
     /\ IsDict(DictGet(Parsed.val, K_financial_summary, EmptyDict))) =>
        (result.via \in {"scraped_nothing", "merged"} <=> LacksData(Parsed.val))

\* C28: a response that parses as a JSON object as it was received parses, after
\* the repair pass of app_v3.py, to the same object
C28_RepairKeepsValidJson ==
    (phase = "v3" /\ GotText /\ Received.ok /\ IsDict(Received.val)) =>
        /\ Parsed.ok
        /\ Parsed.val = Received.val

\* C29: generate_kyb_report of app_v2.py and script_v3.py returns a record for
\* every response text it receives, and raises nothing to its caller
C29_TotalOverTexts ==
    (phase = "v2" /\ GotText) =>
        /\ result.kind = "return"
        /\ IsDict(result.value)

\* C30: for a response object whose beneficial_owners or risk_indicators is a
\* string, the beneficial_owners and risk_indicators of the record
\* generate_kyb_report of app_v3.py returns are those of the record
\* generate_kyb_report of app_v2.py returns for the same response
C30_RevisionsAgreeOnStrings ==
    LET v2 == GenerateKybReportV2(company_name, llm)
    IN  (/\ phase = "v3"
         /\ GotText
         /\ result.via = "direct"
         /\ v2.via = "parsed"
         /\ Received.ok
         /\ IsDict(Received.val)
         /\ Parsed.val = Received.val
         /\ JsonLoads(ExtractV2(llm.content.s)) = Received
         /\ \/ IsStr(DictGet(Received.val, K_beneficial_owners, Null))
            \/ IsStr(DictGet(Received.val, K_risk_indicators, Null)))
        => /\ DictGet(result.value, K_beneficial_owners, Null)
                = DictGet(v2.value, K_beneficial_owners, Null)
           /\ DictGet(result.value, K_risk_indicators, Null)
                = DictGet(v2.value, K_risk_indicators, Null)

\* the rows of df that company name names, case-insensitively
RowsNamed(df, name) ==
    {i \in 1..Len(df) :
        /\ df[i][CompanyNameColumn] # NaN
        /\ Lower(df[i][CompanyNameColumn].s) = Lower(name)}

\* no two rows of df carry the same name, case-insensitively
OneRowPerCompany(df, column) ==
    \A i, j \in 1..Len(df) :
        (/\ i # j
         /\ df[i][column] # NaN
         /\ df[j][column] # NaN) => Lower(df[i][column].s) # Lower(df[j][column].s)

C22_OneRowPerCompany ==
    core_file.exists => OneRowPerCompany(ReadCsv(core_file), "company_name")

\* C26: after n calls of save_report that returned, the reports directory holds
\* n files: no save overwrites the file of an earlier one
C26_OneFilePerReport == Cardinality(report_files) = report_saves

\* the sessions whose call of update_user_output has returned
ReturnedCalls == {w \in DOMAIN writer : writer[w].pc = "done"}

\* the rows of the usage log that the sessions of this run added
RowsAdded ==
    {i \in 1..Len(out_file.rows) : out_file.rows[i]["input_type"] = <<"company_name">>}

\* C23: update_user_output reads the file, adds a row and writes the whole file
\* back: as long as no call reads the file between the read and the write of
\* another, the file holds one row for every call that returned, the row of that
\* call; every call returns, whatever the interleaving
C23_SerialWritersKeepRows ==
    /\ \A w \in DOMAIN writer : writer[w].pc \in {"idle", "read", "done"}
    /\ \A w \in DOMAIN writer :
            writer[w].pc = "read" => writer[w].df[Len(writer[w].df)] = writer[w].new_entry
    /\ exclusive =>
        /\ Cardinality(RowsAdded) = Cardinality(ReturnedCalls)
        /\ \A w \in ReturnedCalls :
                \E i \in RowsAdded : ReadCsv(out_file)[i] = writer[w].new_entry

\* a lost update: every call has returned, and the file holds fewer new rows
\* than there were calls
C23_LostUpdate ==
    /\ writer # <<>>
    /\ \A w \in DOMAIN writer : writer[w].pc = "done"
    /\ ~exclusive
    /\ Cardinality(RowsAdded) < Cardinality(DOMAIN writer)

\* C24: a batch run of app_v2.py with a non-empty API key ends with no exception,
\* and all_results holds one entry per selected company, in input order: as many
\* entries as companies, and the entry of a company whose processing failed is
\* {company_name, error} with that company's name
C24_OneEntryPerCompany ==
    (program = "app_v2_batch" /\ run.ended /\ Truthy(credential)) =>
        /\ run.exc = ""
        /\ IsList(run.all_results)
        /\ Len(run.all_results.items) = inputs.num_companies
        /\ \A i \in 1..Len(run.all_results.items) :
                HasKey(run.all_results.items[i], K_error) =>
                    /\ run.all_results.items[i].k = <<K_company_name, K_error>>
                    /\ DictGet(run.all_results.items[i], K_company_name, Null)
                            = Str(inputs.csv_data[i].name)

\* C25: a run with a missing or empty credential issues no LLM request and
\* generates and persists no report: a script ends at startup with ValueError,
\* an app shows the operator its message about the API key and raises nothing
C25_ConfigurationFailureFirst ==
    (run.ended /\ ~Truthy(credential)) =>
        /\ run.llm_requests = 0
        /\ ~run.generated
        /\ ~run.persisted
        /\ program \in {"script_v1", "script_v2", "script_v3"} =>
                run.exc = "ValueError"
        /\ program \in {"app_v2_single", "app_v2_batch"} =>
                run.exc = "" /\ run.error = EnterKeyV2
        /\ program = "app_v3" => run.exc = "" /\ run.error = EnterKeyV3

\* script_v3.py started with GROQ_API_KEY unset has ended with ValueError
C25_Witness ==
    /\ program = "script_v3"
    /\ credential = Null
    /\ run.ended
    /\ run.exc = "ValueError"
    /\ run.llm_requests = 0

====
